---------------------------- MODULE Spec2Model ----------------------------
(***************************************************************************)
(* Household income/expenditure survey system: the analytical scoring      *)
(* subsystem (data access layer, consumption profile engine, anomaly       *)
(* detection engine, recording quality engine, report generator).          *)
(*                                                                         *)
(* Conventions of the model                                                *)
(*  - money is an integer number of hundredths (50.50 is 5050);            *)
(*  - a score that the code computes as a float is an exact rational       *)
(*    <<n, d>> in lowest terms with d > 0; round(x, 2) is an integer       *)
(*    number of hundredths;                                                *)
(*  - a TEXT month is the sequence of its digits, <<0,3>> for '03' and     *)
(*    <<1,0>> for '10', compared as Python and SQLite compare strings;     *)
(*  - a TEXT year has four digits, so that its string order is its         *)
(*    numeric order: it is an integer;                                     *)
(*  - a ledger date is the triple <<year, int(month), day>>, the text      *)
(*    'YYYY-MM-DD' whose last two characters are the day;                  *)
(*  - the comprehensive score and the ratio of a month's expense to its    *)
(*    income are computed in IEEE double arithmetic, bit                   *)
(*    for bit; the quality total and the anomaly score are their exact     *)
(*    values with an error far below 0.001 whose sign (-1, 0 or 1) is an   *)
(*    input of the call, named fp: it decides a comparison with a          *)
(*    threshold the exact value equals, and the direction of round(x, 2)   *)
(*    on an exact tie; amounts of money are exact;                         *)
(*  - dictionary keys are the English names given beside each record.      *)
(***************************************************************************)
EXTENDS Integers, Sequences, FiniteSets, TLC

VARIABLES
    ledger,   \* table 调查点台账合并: sequence of rows, id = position
    op,       \* name of the operation that ran last
    args,     \* its arguments (and the injected database faults)
    ret,      \* its return value
    log       \* data-access and engine calls it made, in order

vars == <<ledger, op, args, ret, log>>

-----------------------------------------------------------------------------
(* Bounds of the model *)

\* rows of the ledger of one household under study
MaxRows == 5
\* rows of a ledger shared by several households
MaxFewRows == 2
\* household codes of a batch list
MaxBatch == 2
\* anomalies of one severity
MaxCount == 3
\* records of the household whose anomalies are scored
MaxRecords == 16
\* distance, in hundredths, of the scores tried for the assessment
GridStep == 250
\* times one call is made on the same ledger
MaxCalls == 2
\* rows of the ledger of the three-record scenario
MaxScenarioRows == 3
\* multiples of 500.00 tried as a month's income and expense
MaxBalanceSteps == 6

-----------------------------------------------------------------------------
(* Integer and rational arithmetic *)

Min(a, b) == IF a <= b THEN a ELSE b

Max(a, b) == IF a >= b THEN a ELSE b

Abs(a) == IF a < 0 THEN -a ELSE a

RECURSIVE Gcd(_, _)
Gcd(a, b) == IF b = 0 THEN a ELSE Gcd(b, a % b)

\* the rational n/d (d # 0) in lowest terms with a positive denominator
Rat(n, d) ==
    LET g == Gcd(Abs(n), Abs(d))
        s == IF d < 0 THEN -1 ELSE 1
    IN  <<(s * n) \div g, (s * d) \div g>>

RInt(k) == <<k, 1>>

RLe(a, b) == a[1] * b[2] <= b[1] * a[2]

RLt(a, b) == a[1] * b[2] < b[1] * a[2]

RAdd(a, b) == Rat(a[1] * b[2] + b[1] * a[2], a[2] * b[2])

RSub(a, b) == Rat(a[1] * b[2] - b[1] * a[2], a[2] * b[2])

RMulInt(k, a) == Rat(k * a[1], a[2])

RMin(a, b) == IF RLe(a, b) THEN a ELSE b

RMax(a, b) == IF RLe(b, a) THEN a ELSE b

\* the signs of the error of a computed float against its exact value
FloatErr == {-1, 0, 1}

\* round(x, 2) for a float of exact value x = n/d >= 0 and error sign fp, as
\* a number of hundredths; on an exact tie the float lies below or above it,
\* or is the tie itself and Python rounds its decimal value half to even
Round2(x, fp) ==
    LET n == 100 * x[1]
        q == n \div x[2]
        r == n % x[2]
    IN  IF 2 * r < x[2] THEN q
        ELSE IF 2 * r > x[2] THEN q + 1
        ELSE IF fp < 0 THEN q
        ELSE IF fp > 0 THEN q + 1
        ELSE IF q % 2 = 0 THEN q ELSE q + 1

\* the error signs of the floats of one call: of the quality total and of
\* the anomaly score
FloatErrs == [quality : FloatErr, anomaly : FloatErr]

\* the error signs of a call that computes one float
OneFloatErr(e) == [quality |-> e, anomaly |-> e]

\* x >= k for a float of exact value x and error sign fp, k an integer
FloatGe(x, k, fp) == RLt(RInt(k), x) \/ (x = RInt(k) /\ fp >= 0)

RECURSIVE SumSet(_, _)
\* sum of f[x] over the finite set S
SumSet(f, S) ==
    IF S = {} THEN 0
    ELSE LET x == CHOOSE y \in S : TRUE
         IN  f[x] + SumSet(f, S \ {x})

Range(s) == {s[i] : i \in 1..Len(s)}

\* the values of a function
Range1(f) == {f[x] : x \in DOMAIN f}

-----------------------------------------------------------------------------
(* IEEE 754 double arithmetic, for the comprehensive score and the ratio of *)
(* a month's expense to its income.  A natural                              *)
(* number of any size is the sequence of its digits in base 2^15, lowest    *)
(* first, <<>> for 0; a double is [m, s], of value m * 2^(-s), m < 2^53 + 1 *)

Base == 32768

Limb(a, i) == IF i <= Len(a) THEN a[i] ELSE 0

RECURSIVE BigNorm(_)
\* a without its leading zero digits
BigNorm(a) ==
    IF a = <<>> \/ a[Len(a)] # 0 THEN a
    ELSE BigNorm(SubSeq(a, 1, Len(a) - 1))

RECURSIVE BigOfInt(_)
BigOfInt(n) ==
    IF n = 0 THEN <<>> ELSE <<n % Base>> \o BigOfInt(n \div Base)

RECURSIVE BigToInt(_)
BigToInt(a) ==
    IF a = <<>> THEN 0 ELSE a[1] + Base * BigToInt(SubSeq(a, 2, Len(a)))

RECURSIVE BigAddFrom(_, _, _, _)
BigAddFrom(a, b, i, c) ==
    IF i > Len(a) /\ i > Len(b)
    THEN (IF c = 0 THEN <<>> ELSE <<c>>)
    ELSE LET t == Limb(a, i) + Limb(b, i) + c
         IN  <<t % Base>> \o BigAddFrom(a, b, i + 1, t \div Base)

BigAdd(a, b) == BigAddFrom(a, b, 1, 0)

RECURSIVE BigSubFrom(_, _, _, _)
BigSubFrom(a, b, i, c) ==
    IF i > Len(a) THEN <<>>
    ELSE LET t == Limb(a, i) - Limb(b, i) - c
         IN  IF t < 0 THEN <<t + Base>> \o BigSubFrom(a, b, i + 1, 1)
             ELSE <<t>> \o BigSubFrom(a, b, i + 1, 0)

\* a - b, for a >= b
BigSub(a, b) == BigNorm(BigSubFrom(a, b, 1, 0))

RECURSIVE BigMulSmallFrom(_, _, _, _)
BigMulSmallFrom(a, k, i, c) ==
    IF i > Len(a) THEN (IF c = 0 THEN <<>> ELSE <<c>>)
    ELSE LET t == a[i] * k + c
         IN  <<t % Base>> \o BigMulSmallFrom(a, k, i + 1, t \div Base)

\* a * k, for 0 <= k < 2^15
BigMulSmall(a, k) == IF k = 0 THEN <<>> ELSE BigMulSmallFrom(a, k, 1, 0)

RECURSIVE BigMul(_, _)
BigMul(a, b) ==
    IF b = <<>> THEN <<>>
    ELSE BigAdd(BigMulSmall(a, b[1]),
                LET rest == BigMul(a, SubSeq(b, 2, Len(b)))
                IN  IF rest = <<>> THEN <<>> ELSE <<0>> \o rest)

RECURSIVE BigDivSmallFrom(_, _, _, _)
\* long division of the digits i..1 of a by k, r the remainder so far:
\* [q |-> the quotient's digits, lowest first, r |-> the remainder]
BigDivSmallFrom(a, k, i, r) ==
    IF i = 0 THEN [q |-> <<>>, r |-> r]
    ELSE LET t    == r * Base + a[i]
             rest == BigDivSmallFrom(a, k, i - 1, t % k)
         IN  [q |-> rest.q \o <<t \div k>>, r |-> rest.r]

\* a \div k and a % k, for 0 < k <= 2^15
BigDivSmall(a, k) ==
    LET d == BigDivSmallFrom(a, k, Len(a), 0)
    IN  [q |-> BigNorm(d.q), r |-> d.r]

\* a * 2^bits
BigShl(a, bits) ==
    IF a = <<>> THEN <<>>
    ELSE [i \in 1..(bits \div 15) |-> 0] \o BigMulSmall(a, 2 ^ (bits % 15))

\* a \div 2^bits
BigShr(a, bits) ==
    IF Len(a) <= bits \div 15 THEN <<>>
    ELSE BigDivSmall(SubSeq(a, (bits \div 15) + 1, Len(a)),
                     2 ^ (bits % 15)).q

RECURSIVE BigCmpFrom(_, _, _)
BigCmpFrom(a, b, i) ==
    IF i = 0 THEN 0
    ELSE IF a[i] < b[i] THEN -1
    ELSE IF a[i] > b[i] THEN 1
    ELSE BigCmpFrom(a, b, i - 1)

\* -1, 0 or 1 as a < b, a = b or a > b
BigCmp(a, b) ==
    IF Len(a) < Len(b) THEN -1
    ELSE IF Len(a) > Len(b) THEN 1
    ELSE BigCmpFrom(a, b, Len(a))

RECURSIVE BitLenSmall(_)
BitLenSmall(n) == IF n = 0 THEN 0 ELSE 1 + BitLenSmall(n \div 2)

\* number of binary digits of a
BitLen(a) ==
    IF a = <<>> THEN 0 ELSE (Len(a) - 1) * 15 + BitLenSmall(a[Len(a)])

\* a / 2^bits rounded to the nearest integer, a tie to the even one; sticky:
\* a stands for a value slightly above a
BigRound(a, bits, sticky) ==
    IF bits = 0 THEN a
    ELSE LET q    == BigShr(a, bits)
             rem  == BigSub(a, BigShl(q, bits))
             half == BigShl(<<1>>, bits - 1)
             c    == BigCmp(rem, half)
             odd  == q # <<>> /\ q[1] % 2 = 1
         IN  IF c > 0 \/ (c = 0 /\ (sticky \/ odd)) THEN BigAdd(q, <<1>>)
             ELSE q

\* the double nearest m * 2^(-s) (53 significant binary digits)
FloatOf(m, s, sticky) ==
    LET drop == Max(0, BitLen(m) - 53)
    IN  [m |-> BigRound(m, drop, sticky), s |-> s - drop]

\* the double of an integer 0 <= n < 2^31
FloatOfInt(n) == [m |-> BigOfInt(n), s |-> 0]

\* the double nearest n / d, for integers n >= 0 and 0 < d <= 2^15: the
\* value of the literal 0.7 (7 / 10), and of round(x, 2) = n / 100
FloatOfRatio(n, d) ==
    LET scaled == BigDivSmall(BigShl(BigOfInt(n), 90), d)
    IN  FloatOf(scaled.q, 90, scaled.r # 0)

FloatMul(x, y) == FloatOf(BigMul(x.m, y.m), x.s + y.s, FALSE)

FloatAdd(x, y) ==
    LET s == Max(x.s, y.s)
    IN  FloatOf(BigAdd(BigShl(x.m, s - x.s), BigShl(y.m, s - y.s)), s, FALSE)

\* x - y, for x >= y
FloatSub(x, y) ==
    LET s == Max(x.s, y.s)
    IN  FloatOf(BigSub(BigShl(x.m, s - x.s), BigShl(y.m, s - y.s)), s, FALSE)

\* x >= k, for a double x >= 0 with x.s >= 0 and an integer k >= 0
FloatGeInt(x, k) == BigCmp(x.m, BigShl(BigOfInt(k), x.s)) >= 0

\* x / y > t in double arithmetic, for doubles x >= 0, y > 0 and a double t
\* with an even last digit whose successor is t + 2^(1-bits): the quotient
\* is rounded to the nearest double, a tie to t, so that it exceeds t when
\* the exact quotient exceeds mid / 2^bits, mid = t * 2^bits + 1
FloatDivGt(x, y, mid, bits) ==
    BigCmp(BigShl(x.m, bits + y.s), BigShl(BigMul(y.m, mid), x.s)) > 0

\* expense / income > 2, both given in hundredths
RatioAboveTwo(expense, income) ==
    FloatDivGt(FloatOfRatio(expense, 100), FloatOfRatio(income, 100),
               BigAdd(BigShl(<<1>>, 53), <<1>>), 52)

\* expense / income > 1.5, both given in hundredths
RatioAboveOneAndAHalf(expense, income) ==
    FloatDivGt(FloatOfRatio(expense, 100), FloatOfRatio(income, 100),
               BigAdd(BigShl(<<3>>, 52), <<1>>), 53)

\* round(x, 2) as a number of hundredths: the hundredth nearest the binary
\* value of x, a tie to the even one
FloatRound2(x) == BigToInt(BigRound(BigMulSmall(x.m, 100), x.s, FALSE))

-----------------------------------------------------------------------------
(* Strings of digits *)

\* Python's and SQLite's string order on digit strings: a < b
StrLt(a, b) ==
    \E i \in 1..(Min(Len(a), Len(b)) + 1) :
        /\ \A j \in 1..(i - 1) : a[j] = b[j]
        /\ \/ (i > Len(a) /\ i <= Len(b))
           \/ (i <= Len(a) /\ i <= Len(b) /\ a[i] < b[i])

StrLe(a, b) == a = b \/ StrLt(a, b)

RECURSIVE ParseInt(_)
\* int(s) for a digit string s
ParseInt(s) ==
    IF s = <<>> THEN 0
    ELSE 10 * ParseInt(SubSeq(s, 1, Len(s) - 1)) + s[Len(s)]

-----------------------------------------------------------------------------
(* The database: roster 调查点户名单 and ledger 调查点台账合并 *)

Households == {"H1", "H2", "H3"}

\* households of table 调查点户名单, with their 人数 column
Roster == {"H1", "H2"}

FamilySize == [h \in Roster |-> IF h = "H1" THEN 4 ELSE 0]

NoCode == ""

NoBound == <<>>

NoWindow == [start |-> NoBound, end |-> NoBound]

\* the order of TEXT household codes
CodeBefore(x, y) ==
    LET rank == [h \in Households |->
                    IF h = "H1" THEN 1 ELSE IF h = "H2" THEN 2 ELSE 3]
    IN  rank[x] < rank[y]

\* the data-access queries that database.execute_query_safe may fail in
DalCalls == {"get_household_basic_info",
             "get_household_income_expense_data",
             "get_household_monthly_summary",
             "get_household_category_summary",
             "get_statistical_benchmarks",
             "get_household_recording_patterns"}

\* execute_query_safe, called by data-access method `caller`, re-raises
\* whatever the cursor raised; faults names the methods whose queries fail
execute_query_safe(caller, faults) ==
    IF caller \in faults THEN "raise" ELSE "rows"

\* the WHERE clause the four windowed queries build: both halves of a bound
\* must be given, and year and month are compared as TEXT
InWindow(row, win) ==
    /\ win.start # NoBound =>
          \/ row.year > win.start.year
          \/ (row.year = win.start.year /\ StrLe(win.start.month, row.month))
    /\ win.end # NoBound =>
          \/ row.year < win.end.year
          \/ (row.year = win.end.year /\ StrLe(row.month, win.end.month))

\* ids of the rows WHERE t.hudm = ?, the time clause left out
MatchingAnyTime(db, hh, win) ==
    {i \in 1..Len(db) : db[i].hudm = hh}

\* ids of the rows WHERE t.hudm = ? {time_clause}
Matching(db, hh, win) ==
    {i \in 1..Len(db) : db[i].hudm = hh /\ InWindow(db[i], win)}

\* ORDER BY t.year, t.month, t.date, t.id
RowBefore(db, i, j) ==
    LET a == db[i]
        b == db[j]
    IN  \/ a.year < b.year
        \/ (a.year = b.year /\ StrLt(a.month, b.month))
        \/ (a.year = b.year /\ a.month = b.month /\ a.day < b.day)
        \/ (a.year = b.year /\ a.month = b.month /\ a.day = b.day /\ i < j)

RECURSIVE OrderedIds(_, _)
OrderedIds(db, S) ==
    IF S = {} THEN <<>>
    ELSE LET m == CHOOSE i \in S : \A j \in S \ {i} : RowBefore(db, i, j)
         IN  <<m>> \o OrderedIds(db, S \ {m})

\* one dictionary of get_household_income_expense_data:
\* id, 年份 year, 月份 month, 日期 date, 收支类型 type, 编码 code,
\* 项目名称 item, 金额 money, 备注 note
LedgerRecord(db, i) ==
    [id    |-> i,
     year  |-> db[i].year,
     month |-> db[i].month,
     date  |-> <<db[i].year, ParseInt(db[i].month), db[i].day>>,
     type  |-> db[i].type,
     code  |-> db[i].code,
     item  |-> db[i].type_name,
     money |-> db[i].money,
     note  |-> db[i].note]

get_household_income_expense_data(db, hh, win, faults) ==
    IF execute_query_safe("get_household_income_expense_data", faults) = "raise" THEN <<>>
    ELSE LET ids == OrderedIds(db, Matching(db, hh, win))
         IN  [k \in 1..Len(ids) |-> LedgerRecord(db, ids[k])]

\* get_household_basic_info: None (<<>>) when the household is neither in
\* the roster nor in the ledger, or when a query fails
get_household_basic_info(db, hh, faults) ==
    IF execute_query_safe("get_household_basic_info", faults) = "raise" THEN <<>>
    ELSE IF hh \in Roster
         THEN [code |-> hh, size |-> FamilySize[hh], from_roster |-> TRUE]
    ELSE IF \A i \in 1..Len(db) : db[i].hudm # hh THEN <<>>
    ELSE [code |-> hh, size |-> 1, from_roster |-> FALSE]

\* the (year, month) groups of GROUP BY t.year, t.month
MonthGroups(db, M) == {<<db[i].year, db[i].month>> : i \in M}

GroupBefore(g, h) == g[1] < h[1] \/ (g[1] = h[1] /\ StrLt(g[2], h[2]))

RECURSIVE OrderedGroups(_)
OrderedGroups(G) ==
    IF G = {} THEN <<>>
    ELSE LET m == CHOOSE g \in G : \A h \in G \ {g} : GroupBefore(g, h)
         IN  <<m>> \o OrderedGroups(G \ {m})

\* one dictionary of get_household_monthly_summary: 年份 year, 月份 month,
\* 总记账笔数 count, 收入总额 income, 支出总额 expense, 收支差额 balance
MonthlySummaryRow(db, M, g) ==
    LET rows   == {i \in M : db[i].year = g[1] /\ db[i].month = g[2]}
        money  == [i \in rows |-> db[i].money]
        income == SumSet(money, {i \in rows : db[i].type = 1})
        expense == SumSet(money, {i \in rows : db[i].type = 2})
    IN  [year |-> g[1], month |-> g[2], count |-> Cardinality(rows),
         income |-> income, expense |-> expense, balance |-> income - expense]

get_household_monthly_summary(db, hh, win, faults) ==
    IF execute_query_safe("get_household_monthly_summary", faults) = "raise" THEN <<>>
    ELSE LET M  == Matching(db, hh, win)
             gs == OrderedGroups(MonthGroups(db, M))
         IN  [k \in 1..Len(gs) |-> MonthlySummaryRow(db, M, gs[k])]

\* get_household_recording_patterns: 总记录数 total, 整数金额数 integers,
\* 有备注数 notes, 已编码数 coded, 月末记账数 month_end, 项目名称种类数 items
\* and the derived ratios 整数金额比例, 备注使用率, 编码完整率, 月末集中记账比例;
\* {} (<<>>) when the query fails
get_household_recording_patterns(db, hh, win, faults) ==
    IF execute_query_safe("get_household_recording_patterns", faults) = "raise" THEN <<>>
    ELSE LET M        == Matching(db, hh, win)
             total    == Cardinality(M)
             integers == Cardinality({i \in M : db[i].money % 100 = 0})
             notes    == Cardinality({i \in M : db[i].note})
             coded    == Cardinality({i \in M : db[i].code # NoCode})
             monthEnd == Cardinality({i \in M : db[i].day >= 25})
             items    == Cardinality({db[i].type_name : i \in M})
             den      == Max(total, 1)
         IN  [total |-> total, integers |-> integers, notes |-> notes,
              coded |-> coded, month_end |-> monthEnd, items |-> items,
              integer_ratio   |-> Rat(integers, den),
              note_ratio      |-> Rat(notes, den),
              coding_ratio    |-> Rat(coded, den),
              month_end_ratio |-> Rat(monthEnd, den)]

-----------------------------------------------------------------------------
(* Recording quality engine *)
(* Levels: "excellent" 优秀, "good" 良好, "fair" 一般, "poor" 较差,           *)
(* "very_poor" 很差, "insufficient" 数据不足, "failed" 评估失败.              *)
(* Score keys: frequency 记账频率, continuity 记账连续性,                     *)
(* time_distribution 时间分布, completeness 数据完整性, consistency 记录一致性 *)

ScoreKeys == {"frequency", "continuity", "time_distribution",
              "completeness", "consistency"}

_evaluate_recording_frequency(pattern_data, monthly_summary) ==
    IF monthly_summary = <<>> THEN RInt(0)
    ELSE LET avg == Rat(pattern_data.total, Len(monthly_summary))
             score == IF RLe(RInt(30), avg) THEN RInt(95)
                      ELSE IF RLe(RInt(20), avg) THEN RInt(85)
                      ELSE IF RLe(RInt(15), avg) THEN RInt(75)
                      ELSE IF RLe(RInt(10), avg) THEN RInt(65)
                      ELSE RMax(RInt(0), RMulInt(6, avg))
         IN  RMin(RInt(100), score)

\* sorted(monthly_summary, key=lambda x: (x['年份'], x['月份'])): the keys are
\* the TEXT columns, so the order is the string order
SortedMonths(monthly_summary) ==
    OrderedGroups({<<monthly_summary[k].year, monthly_summary[k].month>> :
                     k \in 1..Len(monthly_summary)})

\* month_diff of the i-th sorted month against the one before it
MonthDiff(sorted_months, i) ==
    (sorted_months[i][1] - sorted_months[i - 1][1]) * 12
    + (ParseInt(sorted_months[i][2]) - ParseInt(sorted_months[i - 1][2]))

_evaluate_recording_continuity(monthly_summary) ==
    IF monthly_summary = <<>> THEN RInt(0)
    ELSE IF Len(monthly_summary) = 1 THEN RInt(60)
    ELSE LET sorted_months == SortedMonths(monthly_summary)
             idx  == 2..Len(sorted_months)
             gaps == [i \in idx |-> IF MonthDiff(sorted_months, i) > 1
                                    THEN MonthDiff(sorted_months, i) - 1
                                    ELSE 0]
             total_gap_months == SumSet(gaps, idx)
         IN  IF \A i \in idx : MonthDiff(sorted_months, i) <= 1
             THEN RInt(100)
             ELSE RInt(Max(60, 100 - Min(40, total_gap_months * 5)))

\* day of month -> number of records, for the days that occur
DateDistribution(data) ==
    LET days == {data[k].date[3] : k \in 1..Len(data)}
    IN  [d \in days |-> Cardinality({k \in 1..Len(data) : data[k].date[3] = d})]

_evaluate_time_distribution(pattern_data, data) ==
    IF data = <<>> THEN RInt(0)
    ELSE LET dist  == DateDistribution(data)
             days  == DOMAIN dist
             total == SumSet(dist, days)
             month_end == SumSet(dist, days \cap (25..31))
             n     == Cardinality(days)
             sumsq == SumSet([d \in days |-> dist[d] * dist[d]], days)
             \* n * n * variance, to compare cv = std / mean with k:
             \* cv > k  iff  n*sumsq - total^2 > k^2 * total^2
             spread == n * sumsq - total * total
             end_penalty == IF 2 * month_end > total THEN 30
                            ELSE IF 10 * month_end > 3 * total THEN 15
                            ELSE 0
             cv_penalty  == IF n > 1 /\ spread > 4 * total * total THEN 20
                            ELSE IF n > 1 /\ spread > total * total THEN 10
                            ELSE 0
         IN  RInt(Max(0, 100 - end_penalty - cv_penalty))

_evaluate_data_completeness(pattern_data) ==
    LET note_score    == RMin(RInt(40), RMulInt(100, pattern_data.note_ratio))
        coding_score  == RMin(RInt(40), RMulInt(100, pattern_data.coding_ratio))
        variety_score == RInt(Min(20, pattern_data.items * 2))
    IN  RMin(RInt(100), RAdd(RAdd(note_score, coding_score), variety_score))

\* record['金额'] == int(record['金额'])
IsIntegerAmount(money) == money % 100 = 0

\* the integer-amount rule without its second tier (ratio > 0.6)
IntegerAmountDeductionOneTier(data) ==
    LET total_records   == Len(data)
        integer_amounts == Cardinality({k \in 1..Len(data) :
                                          IsIntegerAmount(data[k].money)})
    IN  IF 5 * integer_amounts > 4 * total_records THEN 25 ELSE 0

\* the deduction of the integer-amount rule of _evaluate_recording_consistency
IntegerAmountDeduction(data) ==
    LET total_records   == Len(data)
        integer_amounts == Cardinality({k \in 1..Len(data) :
                                          IsIntegerAmount(data[k].money)})
    IN  IF 5 * integer_amounts > 4 * total_records THEN 25
        ELSE IF 5 * integer_amounts > 3 * total_records THEN 15
        ELSE 0

\* the deduction of the duplicate rule: min(20, duplicate_ratio * 100)
DuplicateDeduction(data) ==
    LET keys == {<<data[k].date, data[k].money, data[k].item>> :
                   k \in 1..Len(data)}
        duplicate_count == Len(data) - Cardinality(keys)
    IN  IF duplicate_count > 0
        THEN RMin(RInt(20), Rat(100 * duplicate_count, Len(data)))
        ELSE RInt(0)

common_amounts == {10000, 20000, 50000, 100000, 200000, 500000}

\* the deduction of the regular-amount rule
PatternDeduction(data) ==
    LET amounts == {k \in 1..Len(data) : data[k].money > 0}
        pattern_count == Cardinality({k \in amounts :
                                        data[k].money \in common_amounts})
    IN  IF amounts # {} /\ 10 * pattern_count > 3 * Cardinality(amounts)
        THEN 15 ELSE 0

_evaluate_recording_consistency(data) ==
    IF data = <<>> THEN RInt(0)
    ELSE RMax(RInt(0),
              RSub(RInt(100 - IntegerAmountDeduction(data)
                            - PatternDeduction(data)),
                   DuplicateDeduction(data)))

_get_quality_level(total_score, fp) ==
    IF FloatGe(total_score, 90, fp) THEN "excellent"
    ELSE IF FloatGe(total_score, 80, fp) THEN "good"
    ELSE IF FloatGe(total_score, 70, fp) THEN "fair"
    ELSE IF FloatGe(total_score, 60, fp) THEN "poor"
    ELSE "very_poor"

\* the rules of _generate_quality_suggestions that fire, in their order;
\* "keep_up" is the affirming message 记账质量良好，请继续保持
_generate_quality_suggestions(scores, pattern_data) ==
    LET s1 == IF RLt(scores.frequency, RInt(70))
              THEN <<"more_frequency">> ELSE <<>>
        s2 == IF RLt(scores.continuity, RInt(80))
              THEN <<"keep_continuity">> ELSE <<>>
        s3 == IF RLt(scores.time_distribution, RInt(80))
                 /\ RLt(Rat(3, 10), pattern_data.month_end_ratio)
              THEN <<"avoid_month_end">> ELSE <<>>
        s4 == IF RLt(scores.completeness, RInt(80))
                 /\ RLt(pattern_data.note_ratio, Rat(3, 10))
              THEN <<"add_notes">> ELSE <<>>
        s5 == IF RLt(scores.completeness, RInt(80))
                 /\ RLt(pattern_data.coding_ratio, Rat(8, 10))
              THEN <<"complete_codes">> ELSE <<>>
        s6 == IF RLt(scores.consistency, RInt(80))
                 /\ RLt(Rat(7, 10), pattern_data.integer_ratio)
              THEN <<"exact_amounts">> ELSE <<>>
        suggestions == s1 \o s2 \o s3 \o s4 \o s5 \o s6
    IN  IF suggestions = <<>> THEN <<"keep_up">> ELSE suggestions

\* five equal weights
EqualWeights == [k \in ScoreKeys |-> 20]

\* the weights of evaluate_household_quality, in hundredths
weights ==
    [frequency |-> 25, continuity |-> 20, time_distribution |-> 20,
     completeness |-> 20, consistency |-> 15]

\* sum(scores[key] * weights[key] for key in weights)
WeightedTotal(scores) ==
    LET n == [k \in ScoreKeys |-> weights[k] * scores[k][1]]
    IN  RAdd(RAdd(RAdd(RAdd(Rat(n.frequency, 100 * scores.frequency[2]),
                            Rat(n.continuity, 100 * scores.continuity[2])),
                       Rat(n.time_distribution,
                           100 * scores.time_distribution[2])),
                  Rat(n.completeness, 100 * scores.completeness[2])),
             Rat(n.consistency, 100 * scores.consistency[2]))

\* evaluate_household_quality: the result dictionary (户代码 code, 质量评估
\* level, 总评分 total in hundredths, 各项评分 scores, 质量建议 suggestions) and
\* the data-access calls made.  No data-access method raises, so the
\* except branch (level "failed") is never taken.
\* an engine that counts its calls: its answer tells whether the call before
\* it was an evaluation too
QualityCountingCalls(db, hh, win, faults, fp) ==
    [r   |-> [code |-> hh, level |-> "insufficient",
              total |-> IF op = "evaluate_household_quality" THEN 1 ELSE 0,
              scores |-> <<>>],
     log |-> <<"get_household_recording_patterns">>]

evaluate_household_quality(db, hh, win, faults, fp) ==
    LET pattern_data == get_household_recording_patterns(db, hh, win, faults)
        data    == get_household_income_expense_data(db, hh, win, faults)
        monthly == get_household_monthly_summary(db, hh, win, faults)
        scores  ==
            [frequency    |-> _evaluate_recording_frequency(pattern_data, monthly),
             continuity   |-> _evaluate_recording_continuity(monthly),
             time_distribution |-> _evaluate_time_distribution(pattern_data, data),
             completeness |-> _evaluate_data_completeness(pattern_data),
             consistency  |-> _evaluate_recording_consistency(data)]
        total_score == WeightedTotal(scores)
    IN  IF pattern_data = <<>> \/ pattern_data.total = 0
        THEN [r   |-> [code |-> hh, level |-> "insufficient", total |-> 0,
                       scores |-> <<>>],
              log |-> <<"get_household_recording_patterns">>]
        ELSE [r   |-> [code |-> hh,
                       level |-> _get_quality_level(total_score, fp.quality),
                       total |-> Round2(total_score, fp.quality),
                       scores |-> scores,
                       suggestions |->
                           _generate_quality_suggestions(scores, pattern_data)],
              log |-> <<"get_household_recording_patterns",
                        "get_household_income_expense_data",
                        "get_household_monthly_summary">>]

-----------------------------------------------------------------------------
(* Anomaly detection engine *)
(* Severities: "high" 高, "medium" 中, "low" 低.                              *)
(* Kinds: "extreme_amount" 极端金额异常, "amount" 金额异常,                   *)
(* "rare_category" 罕见类别, "severe_imbalance" 收支严重倒挂,                 *)
(* "imbalance" 收支倒挂, "zero_income" 零收入有支出,                          *)
(* "too_many_integers" 整数金额过多, "missing_small_change" 零钱记录缺失,     *)
(* "duplicate" 疑似重复记录, "too_many_per_day" 单日记账过多.                 *)

\* HAVING COUNT(*) >= 10 of the benchmark query
BenchmarkMinCount == 10

\* get_statistical_benchmarks('all'): key <<code prefix, type>> -> 记录数
\* count, 平均金额 mean, 标准差 std (the query selects the literal 0);
\* {} (<<>>) when the query fails
get_statistical_benchmarks(db, faults) ==
    IF execute_query_safe("get_statistical_benchmarks", faults) = "raise" THEN <<>>
    ELSE LET rows == {i \in 1..Len(db) :
                        db[i].code # NoCode /\ db[i].money > 0}
             grp(key) == {i \in rows : <<db[i].code, db[i].type>> = key}
             keys == {key \in {<<db[i].code, db[i].type>> : i \in rows} :
                        Cardinality(grp(key)) >= BenchmarkMinCount}
         IN  [key \in keys |->
                [count |-> Cardinality(grp(key)),
                 mean  |-> Rat(SumSet([i \in grp(key) |-> db[i].money],
                                      grp(key)),
                               Cardinality(grp(key))),
                 std   |-> RInt(0)]]

RECURSIVE Concat(_, _)
\* f[1] \o ... \o f[n]
Concat(f, n) == IF n = 0 THEN <<>> ELSE Concat(f, n - 1) \o f[n]

\* a detector with one tier: a record outside the 2-sigma bounds of its
\* benchmark is an extreme anomaly
AmountAnomaliesOneTier(data, benchmarks) ==
    LET one(record) ==
            LET key == <<record.code, record.type>>
            IN  IF record.code = NoCode \/ record.money <= 0 THEN <<>>
                ELSE IF key \notin DOMAIN benchmarks THEN <<>>
                ELSE LET mean == benchmarks[key].mean
                         std  == benchmarks[key].std
                         amount == RInt(record.money)
                     IN  IF RLt(amount, RSub(mean, RMulInt(2, std)))
                            \/ RLt(RAdd(mean, RMulInt(2, std)), amount)
                         THEN <<[id |-> record.id, kind |-> "extreme_amount",
                                 severity |-> "high", money |-> record.money]>>
                         ELSE <<>>
    IN  Concat([k \in 1..Len(data) |-> one(data[k])], Len(data))

_detect_amount_anomalies(data, benchmarks) ==
    LET one(record) ==
            LET key == <<record.code, record.type>>
            IN  IF record.code = NoCode \/ record.money <= 0 THEN <<>>
                ELSE IF key \notin DOMAIN benchmarks THEN <<>>
                ELSE LET mean == benchmarks[key].mean
                         std  == benchmarks[key].std
                         amount == RInt(record.money)
                         lower_bound == RSub(mean, RMulInt(2, std))
                         upper_bound == RAdd(mean, RMulInt(2, std))
                         extreme_lower == RSub(mean, RMulInt(3, std))
                         extreme_upper == RAdd(mean, RMulInt(3, std))
                     IN  IF RLt(amount, extreme_lower)
                            \/ RLt(extreme_upper, amount)
                         THEN <<[id |-> record.id, kind |-> "extreme_amount",
                                 severity |-> "high", money |-> record.money]>>
                         ELSE IF RLt(amount, lower_bound)
                                 \/ RLt(upper_bound, amount)
                         THEN <<[id |-> record.id, kind |-> "amount",
                                 severity |-> "medium", money |-> record.money]>>
                         ELSE <<>>
    IN  Concat([k \in 1..Len(data) |-> one(data[k])], Len(data))

_detect_category_anomalies(data, benchmarks) ==
    LET one(record) ==
            LET key == <<record.code, record.type>>
            IN  IF record.code = NoCode THEN <<>>
                ELSE IF key \in DOMAIN benchmarks /\ benchmarks[key].count < 50
                THEN <<[id |-> record.id, kind |-> "rare_category",
                        severity |-> "low", money |-> record.money]>>
                ELSE <<>>
    IN  Concat([k \in 1..Len(data) |-> one(data[k])], Len(data))

\* balance anomalies carry no 金额 in their 记录详情: money is the default 0;
\* 收入总额 and 支出总额 are the doubles nearest the month's sums
_detect_balance_anomalies(monthly_summary) ==
    LET id(m) == <<m.year, m.month>>
        ratio(m) ==
            IF m.income > 0 /\ RatioAboveTwo(m.expense, m.income)
            THEN <<[id |-> id(m), kind |-> "severe_imbalance",
                    severity |-> "high", money |-> 0]>>
            ELSE IF m.income > 0 /\ RatioAboveOneAndAHalf(m.expense, m.income)
            THEN <<[id |-> id(m), kind |-> "imbalance",
                    severity |-> "medium", money |-> 0]>>
            ELSE <<>>
        zero(m) ==
            IF m.income = 0 /\ m.expense > 0
            THEN <<[id |-> id(m), kind |-> "zero_income",
                    severity |-> "medium", money |-> 0]>>
            ELSE <<>>
    IN  Concat([k \in 1..Len(monthly_summary) |->
                  ratio(monthly_summary[k]) \o zero(monthly_summary[k])],
               Len(monthly_summary))

_detect_pattern_anomalies(data) ==
    LET idx == 1..Len(data)
        total_records == Len(data)
        integer_amounts ==
            Cardinality({k \in idx : IsIntegerAmount(data[k].money)})
        small_amounts ==
            Cardinality({k \in idx : 0 < data[k].money /\ data[k].money < 1000})
        key(k) == <<data[k].date, data[k].money, data[k].item>>
        group(k) == {j \in idx : key(j) = key(k)}
        first(k) == \A j \in group(k) : k <= j
        sameday(k) == {j \in idx : data[j].date = data[k].date}
        firstday(k) == \A j \in sameday(k) : k <= j
        p1 == IF 5 * integer_amounts > 4 * total_records
              THEN <<[id |-> "PATTERN_001", kind |-> "too_many_integers",
                      severity |-> "medium", money |-> 0]>>
              ELSE <<>>
        p2 == IF 20 * small_amounts < total_records /\ total_records > 50
              THEN <<[id |-> "PATTERN_002", kind |-> "missing_small_change",
                      severity |-> "low", money |-> 0]>>
              ELSE <<>>
        dup(k) == IF first(k) /\ Cardinality(group(k)) > 1
                  THEN <<[id |-> <<"DUP", data[k].id>>, kind |-> "duplicate",
                          severity |-> "medium", money |-> data[k].money]>>
                  ELSE <<>>
        freq(k) == IF firstday(k) /\ Cardinality(sameday(k)) > 20
                   THEN <<[id |-> <<"FREQ", data[k].date>>,
                           kind |-> "too_many_per_day",
                           severity |-> "low", money |-> 0]>>
                   ELSE <<>>
    IN  IF data = <<>> THEN <<>>
        ELSE p1 \o p2 \o Concat([k \in idx |-> dup(k)], Len(data))
                \o Concat([k \in idx |-> freq(k)], Len(data))

\* the score without its cap min(100, ...)
UncappedAnomalyScore(severity_stats, total_records, fp) ==
    IF total_records = 0 THEN 0
    ELSE Round2(Rat(100 * (severity_stats.high * 10
                           + severity_stats.medium * 5
                           + severity_stats.low * 2),
                    total_records * 10), fp)

\* weights = {'高': 10, '中': 5, '低': 2}; the score in hundredths
_calculate_anomaly_score(severity_stats, total_records, fp) ==
    IF total_records = 0 THEN 0
    ELSE LET weighted_score == severity_stats.high * 10
                               + severity_stats.medium * 5
                               + severity_stats.low * 2
             max_possible_score == total_records * 10
         IN  Round2(RMin(RInt(100),
                         Rat(100 * weighted_score, max_possible_score)), fp)

\* 总记录数 total, 异常记录数 anomalies, 异常比例 ratio, 按类型统计 by_kind,
\* 按严重程度统计 by_severity, 异常评分 score
_calculate_anomaly_statistics(anomalies, data, fp) ==
    LET idx == 1..Len(anomalies)
        kinds == {anomalies[k].kind : k \in idx}
        severity_stats ==
            [s \in {"high", "medium", "low"} |->
                Cardinality({k \in idx : anomalies[k].severity = s})]
    IN  [total |-> Len(data),
         anomalies |-> Len(anomalies),
         ratio |-> Rat(Len(anomalies), Max(Len(data), 1)),
         by_kind |-> [t \in kinds |->
                        Cardinality({k \in idx : anomalies[k].kind = t})],
         by_severity |-> severity_stats,
         score |-> _calculate_anomaly_score(severity_stats, Len(data), fp)]

severity_order == [s \in {"high", "medium", "low"} |->
                     IF s = "high" THEN 3 ELSE IF s = "medium" THEN 2 ELSE 1]

RECURSIVE SortDetails(_, _)
\* details.sort(key=(severity_order, 金额), reverse=True): stable, so equal
\* keys keep the order of the list
SortDetails(anomalies, S) ==
    IF S = {} THEN <<>>
    ELSE LET before(i, j) ==
                 LET a == anomalies[i]
                     b == anomalies[j]
                 IN  \/ severity_order[a.severity] > severity_order[b.severity]
                     \/ /\ a.severity = b.severity
                        /\ (a.money > b.money \/ (a.money = b.money /\ i < j))
             m == CHOOSE i \in S : \A j \in S \ {i} : before(i, j)
         IN  <<anomalies[m]>> \o SortDetails(anomalies, S \ {m})

\* the details in the order of the anomaly list
DetailsAsFound(anomalies) == anomalies

_generate_anomaly_details(anomalies) ==
    SortDetails(anomalies, 1..Len(anomalies))

\* detect_household_anomalies: the result dictionary (户代码 code, 异常记录
\* anomalies, 异常统计 stats, 异常详情 details) and the data-access calls made
detect_household_anomalies(db, hh, win, faults, fp) ==
    LET data == get_household_income_expense_data(db, hh, win, faults)
        monthly == get_household_monthly_summary(db, hh, win, faults)
        benchmarks == get_statistical_benchmarks(db, faults)
        anomalies == _detect_amount_anomalies(data, benchmarks)
                     \o _detect_category_anomalies(data, benchmarks)
                     \o _detect_balance_anomalies(monthly)
                     \o _detect_pattern_anomalies(data)
    IN  IF data = <<>>
        THEN [r   |-> [code |-> hh, anomalies |-> <<>>, stats |-> <<>>],
              log |-> <<"get_household_income_expense_data">>]
        ELSE [r   |-> [code |-> hh,
                       anomalies |-> anomalies,
                       stats |-> _calculate_anomaly_statistics(anomalies, data,
                                                               fp.anomaly),
                       details |-> _generate_anomaly_details(anomalies)],
              log |-> <<"get_household_income_expense_data",
                        "get_household_monthly_summary",
                        "get_statistical_benchmarks">>]

-----------------------------------------------------------------------------
(* Consumption profile engine *)
(* Every dimension may yield "insufficient" 数据不足.  Tags:                  *)
(* structure 消费结构型: "basic_living" 基本生活型, "development" 发展享受型, *)
(*   "transport_dependent" 交通依赖型, "housing_stressed" 住房高压型,         *)
(*   "education_investing" 教育投资型, "health_conscious" 健康关注型,         *)
(*   "balanced_consumption" 均衡消费型;                                       *)
(* level 消费水平型: "high_spending" 高消费户, "rational" 理性消费户,         *)
(*   "frugal" 节俭储蓄型, "low_spending" 低消费户, "stable" 消费稳定型,       *)
(*   "volatile" 消费波动型;                                                   *)
(* financial 财务健康型: "high_savings" 高储蓄率家庭, "steady_savings"        *)
(*   稳健储蓄家庭, "paycheck" 月光家庭, "debt_driven" 债务驱动型,             *)
(*   "imbalanced" 收支失衡型, "balanced_budget" 收支平衡型;                   *)
(* income 收入结构型: "wage_dominant" 工资主导型, "business_dominant"         *)
(*   经营主导型, "property_driven" 财产投资驱动型, "diversified" 多元收入型,  *)
(*   "single_source" 单一收入型;                                              *)
(* lifestyle 生活方式型: "family_growth" 家庭成长型, "social" 人情社交型,     *)
(*   "digital_life" 数字生活家, "convenience" 便捷生活追求者,                 *)
(*   "quality_living" 品质生活型, "simple_living" 朴素生活型;                 *)
(* preference 消费偏好型: "foodie" 美食爱好者, "wellness" 健康养生派,         *)
(*   "pet_owner" 爱宠家庭, "car_life" 汽车生活族, "home_improver" 居家装修族, *)
(*   "culture_entertainment" 文化娱乐型, "pragmatic" 实用主义型.              *)

\* item names of the model that contain a keyword of each keyword list
CommItems == {"phone_bill"}

PetItems == {"cat_food"}

CarItems == {"fuel"}

DecorationItems == {"furniture"}

EntertainmentItems == {"cinema"}

\* get_household_category_summary: one dictionary per (编码前缀 prefix,
\* 收支类型 type) of the coded rows: 记账笔数 count, 总金额 total
get_household_category_summary(db, hh, win, faults) ==
    IF execute_query_safe("get_household_category_summary", faults) = "raise" THEN {}
    ELSE LET M == {i \in Matching(db, hh, win) : db[i].code # NoCode}
             grp(key) == {i \in M : <<db[i].code, db[i].type>> = key}
         IN  {[prefix |-> key[1], type |-> key[2],
               count |-> Cardinality(grp(key)),
               total |-> SumSet([i \in grp(key) |-> db[i].money], grp(key))] :
                key \in {<<db[i].code, db[i].type>> : i \in M}}

\* sum(item['总金额'] for item in category_summary if item['收支类型'] == t)
CategoryTotal(category_summary, t) ==
    LET rows == {c \in category_summary : c.type = t}
    IN  SumSet([c \in rows |-> c.total], rows)

\* ratios.get(prefix, 0) * total, for the rows of type t
CategoryAmount(category_summary, t, prefix) ==
    LET rows == {c \in category_summary : c.type = t /\ c.prefix = prefix}
    IN  SumSet([c \in rows |-> c.total], rows)

_analyze_consumption_structure(category_summary, basic_info) ==
    LET total == CategoryTotal(category_summary, 2)
        amt(p) == CategoryAmount(category_summary, 2, p)
        tags ==
            (IF 10 * amt("31") > 4 * total THEN <<"basic_living">>
             ELSE IF 10 * amt("31") < 2 * total THEN <<"development">>
             ELSE <<>>)
            \o (IF 10 * amt("35") > 2 * total
                THEN <<"transport_dependent">> ELSE <<>>)
            \o (IF 10 * amt("33") > 3 * total
                THEN <<"housing_stressed">> ELSE <<>>)
            \o (IF 100 * amt("36") > 15 * total
                THEN <<"education_investing">> ELSE <<>>)
            \o (IF 100 * amt("37") > 15 * total
                THEN <<"health_conscious">> ELSE <<>>)
    IN  IF total <= 0 THEN <<"insufficient">>
        ELSE IF tags = <<>> THEN <<"balanced_consumption">> ELSE tags

RECURSIVE GcdSet(_)
GcdSet(S) ==
    IF S = {} THEN 0
    ELSE LET x == CHOOSE y \in S : TRUE IN Gcd(Abs(x), GcdSet(S \ {x}))

\* np.std(xs) / np.mean(xs) compared with num/den, for a sequence xs of
\* integers with a positive sum: "lt", "gt" or "eq".  The ratio does not
\* change when xs is divided by its gcd, which keeps the squares small.
CompareCV(xs, num, den) ==
    LET g   == GcdSet(Range(xs))
        idx == 1..Len(xs)
        ys  == [k \in idx |-> xs[k] \div g]
        sum == SumSet(ys, idx)
        sumsq == SumSet([k \in idx |-> ys[k] * ys[k]], idx)
        lhs == den * den * (Len(xs) * sumsq - sum * sum)
        rhs == num * num * sum * sum
    IN  IF lhs < rhs THEN "lt" ELSE IF lhs > rhs THEN "gt" ELSE "eq"

_analyze_consumption_level(monthly_summary, basic_info) ==
    LET idx == 1..Len(monthly_summary)
        expenses == [k \in idx |-> monthly_summary[k].expense]
        total_expense == SumSet(expenses, idx)
        months_count == Len(monthly_summary)
        household_size == IF basic_info.size = 0 THEN 1 ELSE basic_info.size
        \* avg_per_capita_expense > t  iff  total_expense > t * per
        per == months_count * household_size
        level == IF total_expense > 300000 * per THEN <<"high_spending">>
                 ELSE IF total_expense > 150000 * per THEN <<"rational">>
                 ELSE IF total_expense > 80000 * per THEN <<"frugal">>
                 ELSE <<"low_spending">>
        stability ==
            IF months_count >= 3 /\ total_expense > 0
            THEN IF CompareCV(expenses, 2, 10) = "lt" THEN <<"stable">>
                 ELSE IF CompareCV(expenses, 5, 10) = "gt" THEN <<"volatile">>
                 ELSE <<>>
            ELSE IF months_count >= 3 THEN <<"stable">>
            ELSE <<>>
    IN  IF monthly_summary = <<>> THEN <<"insufficient">>
        ELSE level \o stability

_analyze_financial_health(monthly_summary, basic_info) ==
    LET idx == 1..Len(monthly_summary)
        total_income  == SumSet([k \in idx |-> monthly_summary[k].income], idx)
        total_expense == SumSet([k \in idx |-> monthly_summary[k].expense], idx)
        saved == total_income - total_expense
        savings == IF total_income <= 0 THEN <<>>
                   ELSE IF 10 * saved > 3 * total_income THEN <<"high_savings">>
                   ELSE IF 10 * saved > total_income THEN <<"steady_savings">>
                   ELSE IF 10 * saved > -total_income THEN <<"paycheck">>
                   ELSE <<"debt_driven">>
        deficit_months ==
            Cardinality({k \in idx : monthly_summary[k].balance < 0})
        balance == IF 2 * deficit_months > Len(monthly_summary)
                   THEN <<"imbalanced">>
                   ELSE IF deficit_months = 0 THEN <<"balanced_budget">>
                   ELSE <<>>
    IN  IF monthly_summary = <<>> THEN <<"insufficient">>
        ELSE savings \o balance

_analyze_income_structure(category_summary) ==
    LET income_data == {c \in category_summary : c.type = 1}
        total == CategoryTotal(category_summary, 1)
        amt(p) == CategoryAmount(category_summary, 1, p)
        tags ==
            (IF 10 * amt("21") > 6 * total THEN <<"wage_dominant">> ELSE <<>>)
            \o (IF 10 * amt("22") > 5 * total
                THEN <<"business_dominant">> ELSE <<>>)
            \o (IF 10 * amt("23") > 3 * total
                THEN <<"property_driven">> ELSE <<>>)
            \o (IF (\A c \in income_data : 10 * c.total < 6 * total)
                   /\ Cardinality(income_data) >= 2
                THEN <<"diversified">> ELSE <<>>)
    IN  IF total <= 0 THEN <<"insufficient">>
        ELSE IF tags = <<>> THEN <<"single_source">> ELSE tags

\* the expense records of a code prefix whose item name is in a keyword set
KeywordRecords(data, prefix, items) ==
    {k \in 1..Len(data) : /\ data[k].type = 2
                          /\ data[k].code = prefix
                          /\ data[k].item \in items}

_analyze_lifestyle(category_summary, data) ==
    LET total == CategoryTotal(category_summary, 2)
        amt(p) == CategoryAmount(category_summary, 2, p)
        tags ==
            (IF 100 * amt("36") > 15 * total THEN <<"family_growth">> ELSE <<>>)
            \o (IF 10 * amt("38") > total THEN <<"social">> ELSE <<>>)
            \o (IF 100 * amt("35") > 15 * total
                   /\ KeywordRecords(data, "35", CommItems) # {}
                THEN <<"digital_life">> ELSE <<>>)
            \o (IF 100 * amt("34") > 8 * total THEN <<"convenience">> ELSE <<>>)
            \o (IF 100 * amt("32") > 8 * total
                THEN <<"quality_living">> ELSE <<>>)
    IN  IF total <= 0 THEN <<"insufficient">>
        ELSE IF tags = <<>> THEN <<"simple_living">> ELSE tags

_analyze_consumption_preferences(category_summary, data) ==
    LET total == CategoryTotal(category_summary, 2)
        amt(p) == CategoryAmount(category_summary, 2, p)
        food_items == {k \in 1..Len(data) :
                         data[k].type = 2 /\ data[k].code = "31"}
        unique_food_types == Cardinality({data[k].item : k \in food_items})
        pet_related == {k \in 1..Len(data) :
                          data[k].type = 2 /\ data[k].item \in PetItems}
        pet_spend == SumSet([k \in pet_related |-> data[k].money], pet_related)
        tags ==
            (IF 100 * amt("31") > 35 * total /\ unique_food_types > 10
             THEN <<"foodie">> ELSE <<>>)
            \o (IF 100 * amt("37") > 12 * total THEN <<"wellness">> ELSE <<>>)
            \o (IF pet_related # {} /\ pet_spend > 50000
                THEN <<"pet_owner">> ELSE <<>>)
            \o (IF 100 * amt("35") > 15 * total
                   /\ KeywordRecords(data, "35", CarItems) # {}
                THEN <<"car_life">> ELSE <<>>)
            \o (IF 10 * amt("33") > 2 * total
                   /\ KeywordRecords(data, "33", DecorationItems) # {}
                THEN <<"home_improver">> ELSE <<>>)
            \o (IF 10 * amt("36") > total
                   /\ KeywordRecords(data, "36", EntertainmentItems) # {}
                THEN <<"culture_entertainment">> ELSE <<>>)
    IN  IF total <= 0 THEN <<"insufficient">>
        ELSE IF tags = <<>> THEN <<"pragmatic">> ELSE tags

\* _analyze_consumption_habits reads the keys '项目名称' and '记录数', which no
\* category summary row has: count defaults to 0 and no entry is made
_analyze_consumption_habits(category_summary, monthly_summary, data) ==
    LET expense_data == {c \in category_summary : c.type = 2}
        count(c) == 0
    IN  {[category |-> "unknown", total |-> c.total, frequency |-> count(c)] :
           c \in {e \in expense_data : count(e) > 0}}

StandardPrefixes == {"31", "32", "33", "34", "35", "36", "37", "38"}

\* _analyze_detailed_consumption_structure: label -> amount for the labels
\* with a positive amount ("other" 其他消费 takes the other prefixes)
_analyze_detailed_consumption_structure(category_summary) ==
    LET expense_data == {c \in category_summary : c.type = 2 /\ c.total > 0}
        label(c) == IF c.prefix \in StandardPrefixes THEN c.prefix ELSE "other"
        labels == {label(c) : c \in expense_data}
        amount(l) == LET rows == {c \in expense_data : label(c) = l}
                     IN  SumSet([c \in rows |-> c.total], rows)
    IN  [categories |-> [l \in labels |-> amount(l)],
         total_expenditure |-> SumSet([c \in expense_data |-> c.total],
                                      expense_data),
         category_count |-> Cardinality(labels)]

\* generate_household_profile: the profile ({} is <<>>) and the data-access
\* calls made
generate_household_profile(db, hh, win, faults) ==
    LET basic_info == get_household_basic_info(db, hh, faults)
        data == get_household_income_expense_data(db, hh, win, faults)
        category_summary == get_household_category_summary(db, hh, win, faults)
        monthly == get_household_monthly_summary(db, hh, win, faults)
    IN  IF basic_info = <<>>
        THEN [r |-> <<>>, log |-> <<"get_household_basic_info">>]
        ELSE IF data = <<>>
        THEN [r |-> <<>>, log |-> <<"get_household_basic_info",
                                    "get_household_income_expense_data">>]
        ELSE [r |-> [code |-> hh,
                     structure_tags  |->
                         _analyze_consumption_structure(category_summary,
                                                        basic_info),
                     level_tags      |->
                         _analyze_consumption_level(monthly, basic_info),
                     financial_tags  |->
                         _analyze_financial_health(monthly, basic_info),
                     income_tags     |->
                         _analyze_income_structure(category_summary),
                     lifestyle_tags  |->
                         _analyze_lifestyle(category_summary, data),
                     preference_tags |->
                         _analyze_consumption_preferences(category_summary,
                                                          data),
                     habits    |->
                         _analyze_consumption_habits(category_summary,
                                                     monthly, data),
                     structure |->
                         _analyze_detailed_consumption_structure(
                             category_summary)],
              log |-> <<"get_household_basic_info",
                        "get_household_income_expense_data",
                        "get_household_category_summary",
                        "get_household_monthly_summary">>]

-----------------------------------------------------------------------------
(* Batch variants of the three engines *)

\* every result kept, under the 户代码 it carries: an empty result has none
ResultsByOwnCode(codes, res, n) ==
    LET key(k) == IF res[k] = <<>> THEN NoCode ELSE res[k].code
    IN  [c \in {key(k) : k \in 1..n} |->
            res[CHOOSE k \in 1..n : key(k) = c /\ \A j \in (k + 1)..n : key(j) # c]]

RECURSIVE BatchResults(_, _, _)
\* the loop "for household_code in household_codes: ... if result:
\* results[household_code] = result" over the first n codes; res[k] is what
\* the single-household call returned for codes[k]
BatchResults(codes, res, n) ==
    IF n = 0 THEN <<>>
    ELSE LET prev == BatchResults(codes, res, n - 1)
         IN  IF res[n] # <<>>
             THEN [c \in (DOMAIN prev) \cup {codes[n]} |->
                     IF c = codes[n] THEN res[n] ELSE prev[c]]
             ELSE prev

\* faultsOf[h]: the data-access methods that fail while household h is
\* processed; fpOf[h]: the error sign of the float computed for h
generate_batch_profiles(db, codes, win, faultsOf) ==
    BatchResults(codes,
                 [k \in 1..Len(codes) |->
                    generate_household_profile(db, codes[k], win,
                                               faultsOf[codes[k]]).r],
                 Len(codes))

detect_batch_anomalies(db, codes, win, faultsOf, fpOf) ==
    BatchResults(codes,
                 [k \in 1..Len(codes) |->
                    detect_household_anomalies(
                        db, codes[k], win, faultsOf[codes[k]],
                        OneFloatErr(fpOf[codes[k]])).r],
                 Len(codes))

evaluate_batch_quality(db, codes, win, faultsOf, fpOf) ==
    BatchResults(codes,
                 [k \in 1..Len(codes) |->
                    evaluate_household_quality(
                        db, codes[k], win, faultsOf[codes[k]],
                        OneFloatErr(fpOf[codes[k]])).r],
                 Len(codes))

-----------------------------------------------------------------------------
(* Report generator *)

\* _enrich_basic_info: basic_info.update({总收入, 总支出, 净收入, 记账天数,
\* 记录总数, 月度数据})
_enrich_basic_info(basic_info, db, hh, win, faults) ==
    LET data == get_household_income_expense_data(db, hh, win, faults)
        monthly == get_household_monthly_summary(db, hh, win, faults)
        idx == 1..Len(data)
        money == [k \in idx |-> data[k].money]
        total_income  == SumSet(money, {k \in idx : data[k].type = 1})
        total_expense == SumSet(money, {k \in idx : data[k].type = 2})
    IN  [r |-> [code |-> basic_info.code,
                size |-> basic_info.size,
                from_roster |-> basic_info.from_roster,
                total_income |-> total_income,
                total_expense |-> total_expense,
                net_income |-> total_income - total_expense,
                record_days |-> Cardinality({data[k].date : k \in idx}),
                total_records |-> Len(data),
                months |-> Len(monthly)],
         log |-> <<"get_household_income_expense_data",
                   "get_household_monthly_summary">>]

\* quality_score * 0.7 + (100 - anomaly_score) * 0.3 in double arithmetic,
\* the two scores given in hundredths (each is 0 or the result of
\* round(x, 2), the double nearest its two-decimal value)
ComprehensiveScore(quality_score, anomaly_score) ==
    FloatAdd(FloatMul(FloatOfRatio(quality_score, 100), FloatOfRatio(7, 10)),
             FloatMul(FloatSub(FloatOfInt(100),
                               FloatOfRatio(anomaly_score, 100)),
                      FloatOfRatio(3, 10)))

\* the tags of the '...标签' lists of a profile
ProfileTags(profile) ==
    IF profile = <<>> THEN {}
    ELSE UNION {Range(profile[k]) :
                  k \in (DOMAIN profile) \cap
                        {"structure_tags", "level_tags", "financial_tags",
                         "income_tags", "lifestyle_tags", "preference_tags"}}

\* _generate_comprehensive_assessment: 综合评分 score (hundredths), 综合等级
\* level, 改进建议 suggestions; "fix_anomalies" is 建议检查和修正异常记录...,
\* "more_data" is 建议增加记账数据...
_generate_comprehensive_assessment(profile, anomaly, quality) ==
    LET quality_score == IF "total" \in DOMAIN quality THEN quality.total ELSE 0
        stats == IF "stats" \in DOMAIN anomaly THEN anomaly.stats ELSE <<>>
        anomaly_score == IF "score" \in DOMAIN stats THEN stats.score ELSE 0
        comprehensive_score == ComprehensiveScore(quality_score, anomaly_score)
        level == IF FloatGeInt(comprehensive_score, 90) THEN "excellent"
                 ELSE IF FloatGeInt(comprehensive_score, 80) THEN "good"
                 ELSE IF FloatGeInt(comprehensive_score, 70) THEN "fair"
                 ELSE IF FloatGeInt(comprehensive_score, 60) THEN "poor"
                 ELSE "very_poor"
        s1 == IF quality_score < 8000 /\ "suggestions" \in DOMAIN quality
              THEN quality.suggestions ELSE <<>>
        s2 == IF anomaly_score > 2000 THEN <<"fix_anomalies">> ELSE <<>>
        s3 == IF "insufficient" \in ProfileTags(profile)
              THEN <<"more_data">> ELSE <<>>
    IN  [score |-> FloatRound2(comprehensive_score),
         level |-> level,
         suggestions |-> s1 \o s2 \o s3,
         quality_part |-> quality_score,
         anomaly_part |-> 10000 - anomaly_score]

\* a report that asks the profile engine before it looks at the basic info
ReportProfilingFirst(db, hh, win, faults, fp) ==
    LET profile    == generate_household_profile(db, hh, win, faults)
        basic_info == get_household_basic_info(db, hh, faults)
    IN  [r   |-> IF basic_info = <<>>
                 THEN [success |-> FALSE, error |-> "household_not_found"]
                 ELSE [success |-> TRUE, household_basic_info |-> basic_info,
                       consumption_profile |-> profile.r],
         log |-> <<"generate_household_profile">> \o profile.log
                 \o <<"get_household_basic_info">>]

\* generate_household_analysis_report: the report and, in order, the
\* data-access methods and engine entry points it called
generate_household_analysis_report(db, hh, win, faults, fp) ==
    LET basic_info == get_household_basic_info(db, hh, faults)
        enriched == _enrich_basic_info(basic_info, db, hh, win, faults)
        profile  == generate_household_profile(db, hh, win, faults)
        anomaly  == detect_household_anomalies(db, hh, win, faults, fp)
        quality  == evaluate_household_quality(db, hh, win, faults, fp)
    IN  IF basic_info = <<>>
        THEN [r   |-> [success |-> FALSE, error |-> "household_not_found"],
              log |-> <<"get_household_basic_info">>]
        ELSE [r   |-> [success |-> TRUE,
                       household_basic_info |-> enriched.r,
                       consumption_profile  |-> profile.r,
                       anomaly_detection    |-> anomaly.r,
                       quality_assessment   |-> quality.r,
                       comprehensive_assessment |->
                           _generate_comprehensive_assessment(
                               profile.r, anomaly.r, quality.r)],
              log |-> <<"get_household_basic_info", "_enrich_basic_info">>
                      \o enriched.log
                      \o <<"generate_household_profile">> \o profile.log
                      \o <<"detect_household_anomalies">> \o anomaly.log
                      \o <<"evaluate_household_quality">> \o quality.log]

-----------------------------------------------------------------------------
(* Batch and area reports *)

\* the keys of a profile that end in 标签 and hold a list
TagKeys == {"structure_tags", "level_tags", "financial_tags",
            "income_tags", "lifestyle_tags", "preference_tags"}

\* _generate_batch_statistics: 质量评估统计 quality (平均质量评分 average,
\* 最高 highest, 最低 lowest, 质量等级分布 levels), 异常检测统计 anomaly
\* (平均异常评分 average, 总异常记录数 total, 平均每户异常数 per_household),
\* 消费画像统计 tags, 总体概况 overview (分析户数 households, 有效数据户数
\* valid, 数据完整率 completeness); fp is the error sign of its averages
_generate_batch_statistics(consumption_profiles, anomaly_detections, quality_assessments, fp) ==
    LET Q  == DOMAIN quality_assessments
        A  == DOMAIN anomaly_detections
        P  == DOMAIN consumption_profiles
        quality_scores == [h \in Q |-> quality_assessments[h].total]
        stats(h) == anomaly_detections[h].stats
        anomaly_scores ==
            [h \in A |-> IF "score" \in DOMAIN stats(h)
                         THEN stats(h).score ELSE 0]
        anomaly_counts ==
            [h \in A |-> IF "anomalies" \in DOMAIN stats(h)
                         THEN stats(h).anomalies ELSE 0]
        total_anomalies == SumSet(anomaly_counts, A)
        levels == {quality_assessments[h].level : h \in Q}
        tagsOf(h, k) == Range(consumption_profiles[h][k])
        occurrences(h, k, t) ==
            Cardinality({i \in DOMAIN consumption_profiles[h][k] :
                            consumption_profiles[h][k][i] = t})
        valid == Cardinality({h \in Q : quality_scores[h] > 0})
    IN  [quality |->
            [average |-> IF Q = {} THEN 0
                         ELSE Round2(Rat(SumSet(quality_scores, Q),
                                         100 * Cardinality(Q)), fp),
             highest |-> IF Q = {} THEN 0
                         ELSE CHOOSE x \in Range1(quality_scores) :
                                \A y \in Range1(quality_scores) : y <= x,
             lowest  |-> IF Q = {} THEN 0
                         ELSE CHOOSE x \in Range1(quality_scores) :
                                \A y \in Range1(quality_scores) : x <= y,
             levels  |-> [l \in levels |->
                            Cardinality({h \in Q :
                                quality_assessments[h].level = l})]],
         anomaly |->
            [average |-> IF A = {} THEN 0
                         ELSE Round2(Rat(SumSet(anomaly_scores, A),
                                         100 * Cardinality(A)), fp),
             total |-> total_anomalies,
             per_household |->
                 IF A = {} THEN 0
                 ELSE Round2(Rat(total_anomalies, Cardinality(A)), fp)],
         tags |->
            [k \in IF P = {} THEN {} ELSE TagKeys |->
                [t \in UNION {tagsOf(h, k) : h \in P} |->
                    SumSet([h \in P |-> occurrences(h, k, t)], P)]],
         overview |->
            [households |-> Cardinality(Q),
             valid |-> valid,
             completeness |-> IF Q = {} THEN RInt(0)
                              ELSE Rat(valid, Cardinality(Q))]]

\* generate_batch_analysis_report: the report ('报告生成时间', the clock's
\* text, is left out) and the batch engines it ran, in order; the three
\* results are computed once and the report is built on their values
generate_batch_analysis_report(db, codes, win, faultsOf, fpOf, fp) ==
    LET results ==
            [consumption_profiles |->
                 generate_batch_profiles(db, codes, win, faultsOf),
             anomaly_detections |->
                 detect_batch_anomalies(db, codes, win, faultsOf, fpOf),
             quality_assessments |->
                 evaluate_batch_quality(db, codes, win, faultsOf, fpOf)]
        report(detailed) ==
            [r   |-> [success |-> TRUE,
                      report_metadata |-> [households |-> Len(codes),
                                           window |-> win],
                      batch_statistics |->
                          _generate_batch_statistics(
                              detailed.consumption_profiles,
                              detailed.anomaly_detections,
                              detailed.quality_assessments, fp),
                      detailed_results |-> detailed],
             log |-> <<"generate_batch_profiles", "detect_batch_anomalies",
                       "evaluate_batch_quality">>]
    IN  CHOOSE x \in {report(detailed) : detailed \in {results}} : TRUE

\* table 调查点村名单, read through the view v_town_village_list: 村代码
\* code (the first 12 characters of a household code), 所在乡镇街道 town,
\* 村居名称 village
VillageList == {[code |-> "V1", town |-> "T1", village |-> "A"],
                [code |-> "V2", town |-> "T1", village |-> "B"],
                [code |-> "V3", town |-> "T2", village |-> "A"]}

\* SUBSTR(户代码, 1, 12) of the households
VillageCodeOf == [h \in Households |->
                    IF h = "H1" THEN "V1"
                    ELSE IF h = "H2" THEN "V3" ELSE "V2"]

\* town_name or village_name not given
NoName == ""

RECURSIVE SortedCodes(_)
\* ORDER BY 户代码
SortedCodes(S) ==
    IF S = {} THEN <<>>
    ELSE LET c == CHOOSE x \in S : \A y \in S : x = y \/ CodeBefore(x, y)
         IN  <<c>> \o SortedCodes(S \ {c})

\* get_households_by_area: the roster's household codes whose village is
\* in the town and has the name, in order; [] when a query fails
get_households_by_area(town_name, village_name, faults) ==
    IF execute_query_safe("get_households_by_area", faults) = "raise"
    THEN <<>>
    ELSE LET village_codes ==
                 {v.code : v \in {w \in VillageList :
                     /\ town_name # NoName => w.town = town_name
                     /\ village_name # NoName => w.village = village_name}}
         IN  SortedCodes({h \in Roster : VillageCodeOf[h] \in village_codes})

\* an area report that takes every household of the roster
AreaReportOfRoster(db, town_name, village_name, win, faults, faultsOf, fpOf, fp) ==
    LET household_codes == SortedCodes(Roster)
        batch_report == generate_batch_analysis_report(
                            db, household_codes, win, faultsOf, fpOf, fp)
    IN  [r   |-> [batch_report.r EXCEPT !.report_metadata =
                     [households |-> Len(household_codes), window |-> win,
                      area |-> [town |-> town_name, village |-> village_name,
                                households |-> Len(household_codes)]]],
         log |-> <<"get_households_by_area",
                   "generate_batch_analysis_report">> \o batch_report.log]

\* generate_area_analysis_report: 区域信息 area (乡镇 town, 村庄 village,
\* 户数 households) is added to the metadata of the batch report
generate_area_analysis_report(db, town_name, village_name, win, faults, faultsOf, fpOf, fp) ==
    LET household_codes ==
            get_households_by_area(town_name, village_name, faults)
        batch_report == generate_batch_analysis_report(
                            db, household_codes, win, faultsOf, fpOf, fp)
        with_area(batch) ==
            [r   |-> [batch.r EXCEPT !.report_metadata =
                         [households |-> Len(household_codes), window |-> win,
                          area |-> [town |-> town_name,
                                    village |-> village_name,
                                    households |-> Len(household_codes)]]],
             log |-> <<"get_households_by_area",
                       "generate_batch_analysis_report">> \o batch.log]
    IN  IF household_codes = <<>>
        THEN [r   |-> [success |-> FALSE, error |-> "no_households_in_area"],
              log |-> <<"get_households_by_area">>]
        ELSE CHOOSE x \in {with_area(batch) : batch \in {batch_report}} : TRUE

-----------------------------------------------------------------------------
(* Reports as Python values, and their export as JSON text.                *)
(* A Python value is [t |-> its type, v |-> its content]: "str", "int",    *)
(* "float", "bool" and "None" hold a value of the model, "list" and        *)
(* "tuple" a sequence of Python values, "dict" a sequence of <<key, value>>*)
(* pairs of Python values in insertion order.  A JSON text is the tree of  *)
(* its tokens: [j |-> "string" | "number" | "literal" | "array" |          *)
(* "object", v |-> ...]; a number records whether it is written as an      *)
(* integer, an object holds <<name, value>> pairs, the name a string.      *)

PyNone     == [t |-> "None", v |-> "None"]
PyBool(b)  == [t |-> "bool", v |-> b]
PyInt(i)   == [t |-> "int", v |-> i]
PyFloat(x) == [t |-> "float", v |-> x]
PyStr(x)   == [t |-> "str", v |-> x]
PyList(xs) == [t |-> "list", v |-> xs]
PyTuple(xs) == [t |-> "tuple", v |-> xs]
PyDict(items) == [t |-> "dict", v |-> items]

\* the key-value pair of a dict literal with a str key
Item(key, value) == <<PyStr(key), value>>

RECURSIVE SeqOf(_)
\* the elements of a finite set, one after the other
SeqOf(S) ==
    IF S = {} THEN <<>>
    ELSE LET x == CHOOSE y \in S : TRUE
         IN  <<x>> \o SeqOf(S \ {x})

\* a dict with str keys, the keys of the function f, and values enc(f[k])
PyDictOf(f, enc(_)) ==
    LET keys == SeqOf(DOMAIN f)
    IN  PyDict([i \in 1..Len(keys) |-> Item(keys[i], enc(f[keys[i]]))])

\* a list of the values enc(xs[i])
PyListOf(xs, enc(_)) == PyList([i \in 1..Len(xs) |-> enc(xs[i])])

\* a pair (start, end) where the code builds a dict
PyTimeRangeAsTuple(win) ==
    PyTuple(<<IF win.start = NoBound THEN PyNone ELSE PyStr(win.start),
              IF win.end = NoBound THEN PyNone ELSE PyStr(win.end)>>)

\* '分析时间范围': {'开始': f"{start_year}-{start_month}" or None,
\* '结束': f"{end_year}-{end_month}" or None}
PyTimeRange(win) ==
    PyDict(<<Item("start", IF win.start = NoBound THEN PyNone
                           ELSE PyStr(win.start)),
             Item("end", IF win.end = NoBound THEN PyNone
                         ELSE PyStr(win.end))>>)

\* the profile dictionary of generate_household_profile; {} when there is
\* none
PyProfile(profile, win) ==
    IF profile = <<>> THEN PyDict(<<>>)
    ELSE PyDict(<<Item("code", PyStr(profile.code)),
                  Item("window", PyTimeRange(win)),
                  Item("structure_tags", PyListOf(profile.structure_tags, PyStr)),
                  Item("level_tags", PyListOf(profile.level_tags, PyStr)),
                  Item("financial_tags", PyListOf(profile.financial_tags, PyStr)),
                  Item("income_tags", PyListOf(profile.income_tags, PyStr)),
                  Item("lifestyle_tags", PyListOf(profile.lifestyle_tags, PyStr)),
                  Item("preference_tags", PyListOf(profile.preference_tags, PyStr)),
                  Item("habits", PyDict(<<>>)),
                  Item("structure",
                       PyDict(<<Item("categories",
                                     PyDictOf(profile.structure.categories,
                                              PyFloat)),
                                Item("total_expenditure",
                                     PyFloat(profile.structure.total_expenditure)),
                                Item("category_count",
                                     PyInt(profile.structure.category_count))>>))>>)

\* an entry of 异常记录: 记录ID is the id of the record (int) for the amount
\* and category anomalies and a text for the others
PyAnomaly(a) ==
    PyDict(<<Item("id", IF a.kind \in {"extreme_amount", "amount",
                                        "rare_category"}
                        THEN PyInt(a.id) ELSE PyStr(a.id)),
             Item("kind", PyStr(a.kind)),
             Item("severity", PyStr(a.severity))>>)

\* 异常统计
PyAnomalyStatistics(stats) ==
    IF stats = <<>> THEN PyDict(<<>>)
    ELSE PyDict(<<Item("total", PyInt(stats.total)),
                  Item("anomalies", PyInt(stats.anomalies)),
                  Item("ratio", PyFloat(stats.ratio)),
                  Item("by_kind", PyDictOf(stats.by_kind, PyInt)),
                  Item("by_severity", PyDictOf(stats.by_severity, PyInt)),
                  Item("score", PyFloat(stats.score))>>)

\* the result dictionary of detect_household_anomalies
PyAnomalyDetection(anomaly, win) ==
    PyDict(<<Item("code", PyStr(anomaly.code)),
             Item("window", PyTimeRange(win)),
             Item("anomalies", PyListOf(anomaly.anomalies, PyAnomaly)),
             Item("stats", PyAnomalyStatistics(anomaly.stats))>>
           \o IF "details" \in DOMAIN anomaly
              THEN <<Item("details", PyListOf(anomaly.details, PyAnomaly))>>
              ELSE <<>>)

\* the result dictionary of evaluate_household_quality
PyQuality(quality, win) ==
    PyDict(<<Item("code", PyStr(quality.code)),
             Item("window", PyTimeRange(win)),
             Item("level", PyStr(quality.level)),
             Item("total", PyFloat(quality.total)),
             Item("scores", PyDictOf(quality.scores, PyFloat))>>
           \o IF "suggestions" \in DOMAIN quality
              THEN <<Item("weights", PyDictOf(weights, PyFloat)),
                     Item("suggestions",
                          PyListOf(quality.suggestions, PyStr))>>
              ELSE <<>>)

\* 综合评估
PyAssessment(assessment) ==
    PyDict(<<Item("score", PyFloat(assessment.score)),
             Item("level", PyStr(assessment.level)),
             Item("suggestions", PyListOf(assessment.suggestions, PyStr)),
             Item("parts",
                  PyDict(<<Item("quality", PyFloat(assessment.quality_part)),
                           Item("anomaly", PyFloat(assessment.anomaly_part))>>))>>)

\* household_basic_info after _enrich_basic_info
PyBasicInfo(info) ==
    PyDict(<<Item("code", PyStr(info.code)),
             Item("size", PyInt(info.size)),
             Item("total_income", PyFloat(info.total_income)),
             Item("total_expense", PyFloat(info.total_expense)),
             Item("net_income", PyFloat(info.net_income)),
             Item("record_days", PyInt(info.record_days)),
             Item("total_records", PyInt(info.total_records)),
             Item("months", PyInt(info.months))>>)

\* the dictionary returned by generate_household_analysis_report for
\* household hh and the window win
PyHouseholdReport(report, hh, win) ==
    IF ~ report.success
    THEN PyDict(<<Item("success", PyBool(FALSE)),
                  Item("error", PyStr(report.error))>>)
    ELSE PyDict(<<Item("success", PyBool(TRUE)),
                  Item("report_metadata",
                       PyDict(<<Item("code", PyStr(hh)),
                                Item("window", PyTimeRange(win))>>)),
                  Item("household_basic_info",
                       PyBasicInfo(report.household_basic_info)),
                  Item("consumption_profile",
                       PyProfile(report.consumption_profile, win)),
                  Item("anomaly_detection",
                       PyAnomalyDetection(report.anomaly_detection, win)),
                  Item("quality_assessment",
                       PyQuality(report.quality_assessment, win)),
                  Item("comprehensive_assessment",
                       PyAssessment(report.comprehensive_assessment))>>)

\* batch_statistics
PyBatchStatistics(stats) ==
    LET counts(f) == PyDictOf(f, PyInt)
    IN  PyDict(<<Item("quality",
                      PyDict(<<Item("average", PyFloat(stats.quality.average)),
                               Item("highest", PyFloat(stats.quality.highest)),
                               Item("lowest", PyFloat(stats.quality.lowest)),
                               Item("levels", counts(stats.quality.levels))>>)),
                 Item("anomaly",
                      PyDict(<<Item("average", PyFloat(stats.anomaly.average)),
                               Item("total", PyInt(stats.anomaly.total)),
                               Item("per_household",
                                    PyFloat(stats.anomaly.per_household))>>)),
                 Item("tags", PyDictOf(stats.tags, counts)),
                 Item("overview",
                      PyDict(<<Item("households", PyInt(stats.overview.households)),
                               Item("valid", PyInt(stats.overview.valid)),
                               Item("completeness",
                                    PyFloat(stats.overview.completeness))>>))>>)

\* the dictionary returned by generate_batch_analysis_report for the
\* window win: the dictionaries of detailed_results have the household
\* codes as keys
PyBatchReport(report, win) ==
    LET profile(x) == PyProfile(x, win)
        anomaly(x) == PyAnomalyDetection(x, win)
        quality(x) == PyQuality(x, win)
        detailed == report.detailed_results
    IN  PyDict(<<Item("success", PyBool(report.success)),
                 Item("report_metadata",
                      PyDict(<<Item("households",
                                    PyInt(report.report_metadata.households)),
                               Item("window", PyTimeRange(win))>>)),
                 Item("batch_statistics",
                      PyBatchStatistics(report.batch_statistics)),
                 Item("detailed_results",
                      PyDict(<<Item("consumption_profiles",
                                    PyDictOf(detailed.consumption_profiles,
                                             profile)),
                               Item("anomaly_detections",
                                    PyDictOf(detailed.anomaly_detections,
                                             anomaly)),
                               Item("quality_assessments",
                                    PyDictOf(detailed.quality_assessments,
                                             quality))>>))>>)

\* the types json.dumps writes as the name of a member
JsonKeyTypes == {"str", "int", "float", "bool", "None"}

RECURSIVE Serializable(_)
\* json.dumps(x) raises no TypeError
Serializable(x) ==
    IF x.t \in JsonKeyTypes THEN TRUE
    ELSE IF x.t \in {"list", "tuple"}
    THEN \A i \in 1..Len(x.v) : Serializable(x.v[i])
    ELSE IF x.t = "dict"
    THEN \A i \in 1..Len(x.v) :
            x.v[i][1].t \in JsonKeyTypes /\ Serializable(x.v[i][2])
    ELSE FALSE

\* the name json.dumps writes for the key k of a dict
JsonKey(k) ==
    IF k.t = "str" THEN k.v
    ELSE IF k.t = "bool" THEN (IF k.v THEN "true" ELSE "false")
    ELSE IF k.t = "None" THEN "null"
    ELSE ToString(k.v)

RECURSIVE JsonDumps(_)
\* json.dumps(x, ensure_ascii=False, indent=2) of a serializable x
JsonDumps(x) ==
    IF x.t = "str" THEN [j |-> "string", v |-> x.v]
    ELSE IF x.t = "int" THEN [j |-> "number", v |-> x.v, int |-> TRUE]
    ELSE IF x.t = "float" THEN [j |-> "number", v |-> x.v, int |-> FALSE]
    ELSE IF x.t = "bool"
    THEN [j |-> "literal", v |-> IF x.v THEN "true" ELSE "false"]
    ELSE IF x.t = "None" THEN [j |-> "literal", v |-> "null"]
    ELSE IF x.t \in {"list", "tuple"}
    THEN [j |-> "array", v |-> [i \in 1..Len(x.v) |-> JsonDumps(x.v[i])]]
    ELSE [j |-> "object",
          v |-> [i \in 1..Len(x.v) |->
                    <<JsonKey(x.v[i][1]), JsonDumps(x.v[i][2])>>]]

\* the text '导出失败: ...' returned when json.dumps raises
ExportFailed == [j |-> "invalid", v |-> "export_failed"]

\* export_report_to_json(report) without file_path
export_report_to_json(report) ==
    IF Serializable(report) THEN JsonDumps(report) ELSE ExportFailed

RECURSIVE JsonLoads(_)
\* json.loads(text); a text that is no JSON raises JSONDecodeError
JsonLoads(text) ==
    IF text.j = "string" THEN PyStr(text.v)
    ELSE IF text.j = "number"
    THEN (IF text.int THEN PyInt(text.v) ELSE PyFloat(text.v))
    ELSE IF text.j = "literal"
    THEN (IF text.v = "null" THEN PyNone ELSE PyBool(text.v = "true"))
    ELSE IF text.j = "array"
    THEN PyList([i \in 1..Len(text.v) |-> JsonLoads(text.v[i])])
    ELSE IF text.j = "object"
    THEN PyDict([i \in 1..Len(text.v) |->
                    <<PyStr(text.v[i][1]), JsonLoads(text.v[i][2])>>])
    ELSE [t |-> "JSONDecodeError", v |-> text.v]

RECURSIVE DeepEqual(_, _)
\* a == b for Python values of the same types: sequences are equal element
\* by element, dictionaries when they hold the same keys with equal values
DeepEqual(a, b) ==
    IF a.t # b.t THEN FALSE
    ELSE IF a.t \in {"list", "tuple"}
    THEN /\ Len(a.v) = Len(b.v)
         /\ \A i \in 1..Len(a.v) : DeepEqual(a.v[i], b.v[i])
    ELSE IF a.t = "dict"
    THEN /\ Len(a.v) = Len(b.v)
         /\ \A i \in 1..Len(a.v) : \E k \in 1..Len(b.v) :
                /\ DeepEqual(a.v[i][1], b.v[k][1])
                /\ DeepEqual(a.v[i][2], b.v[k][2])
    ELSE a.v = b.v

-----------------------------------------------------------------------------
(* The state machine: records are imported into the ledger, and the        *)
(* analysis entry points are called on the ledger as it stands.            *)

\* one row of 调查点台账合并
Row(hudm, year, month, day, type, code, type_name, money, note) ==
    [hudm |-> hudm, year |-> year, month |-> month, day |-> day,
     type |-> type, code |-> code, type_name |-> type_name,
     money |-> money, note |-> note]

\* data_import: INSERT INTO 调查点台账合并, the month stored as it is given
ImportRecord(rows, bound) ==
    /\ Len(ledger) < bound
    /\ \E r \in rows :
          /\ ledger' = Append(ledger, r)
          /\ op' = "import"
          /\ args' = r
          /\ ret' = <<>>
          /\ log' = <<>>

\* The engines only read the database: a call changes op, args, ret and log
\* alone, and the next call overwrites them.  The state after a call is
\* therefore the same whether or not other calls came before it, and calls
\* are taken from the states in which none has been made on the ledger as it
\* stands.
NoCallYet == op \in {"init", "import"}

\* the arguments of a single-household call: household_code, the window
\* start.. and end.., the queries that fail and the float error signs of the
\* call; `call` counts the times the call has been made on the ledger as it
\* stands
CallArgs(hh, win, faults, fp) ==
    [code |-> hh, window |-> win, faults |-> faults, fp |-> fp, call |-> 1]

\* a call of f(household_code, start.., end..); f returns [r, log]
Call(name, hh, win, faults, fp, out) ==
    /\ NoCallYet
    /\ op' = name
    /\ args' = CallArgs(hh, win, faults, fp)
    /\ ret' = out.r
    /\ log' = out.log
    /\ UNCHANGED ledger

EvaluateQuality(hhs, wins, faultSets) ==
    \E hh \in hhs, win \in wins, faults \in faultSets, e \in FloatErr :
        Call("evaluate_household_quality", hh, win, faults, OneFloatErr(e),
             evaluate_household_quality(ledger, hh, win, faults,
                                        OneFloatErr(e)))

DetectAnomalies(hhs, wins, faultSets) ==
    \E hh \in hhs, win \in wins, faults \in faultSets, e \in FloatErr :
        Call("detect_household_anomalies", hh, win, faults, OneFloatErr(e),
             detect_household_anomalies(ledger, hh, win, faults,
                                        OneFloatErr(e)))

GenerateProfile(hhs, wins, faultSets) ==
    \E hh \in hhs, win \in wins, faults \in faultSets :
        Call("generate_household_profile", hh, win, faults, OneFloatErr(0),
             generate_household_profile(ledger, hh, win, faults))

GenerateReport(hhs, wins, faultSets) ==
    \E hh \in hhs, win \in wins, faults \in faultSets, fp \in FloatErrs :
        Call("generate_household_analysis_report", hh, win, faults, fp,
             generate_household_analysis_report(ledger, hh, win, faults, fp))

\* the lists of at most MaxBatch household codes, repetitions included
BatchLists == UNION {[1..n -> Households] : n \in 0..MaxBatch}

\* every query made for a household of `bad` fails (bad: households of the
\* list)
FaultsOf(bad) == [h \in Households |-> IF h \in bad THEN DalCalls ELSE {}]

BatchCall(name, codes, bad, result) ==
    /\ NoCallYet
    /\ op' = name
    /\ args' = [codes |-> codes, bad |-> bad]
    /\ ret' = result
    /\ log' = <<>>
    /\ UNCHANGED ledger

BatchProfiles ==
    \E codes \in BatchLists : \E bad \in SUBSET Range(codes) :
        BatchCall("generate_batch_profiles", codes, bad,
                  generate_batch_profiles(ledger, codes, NoWindow,
                                          FaultsOf(bad)))

BatchAnomalies ==
    \E codes \in BatchLists :
        \E bad \in SUBSET Range(codes), fpOf \in [Range(codes) -> FloatErr] :
            BatchCall("detect_batch_anomalies", codes, bad,
                      detect_batch_anomalies(ledger, codes, NoWindow,
                                             FaultsOf(bad), fpOf))

BatchQuality ==
    \E codes \in BatchLists :
        \E bad \in SUBSET Range(codes), fpOf \in [Range(codes) -> FloatErr] :
            BatchCall("evaluate_batch_quality", codes, bad,
                      evaluate_batch_quality(ledger, codes, NoWindow,
                                             FaultsOf(bad), fpOf))

Init ==
    /\ ledger = <<>>
    /\ op = "init"
    /\ args = <<>>
    /\ ret = <<>>
    /\ log = <<>>

-----------------------------------------------------------------------------
(* Household H1 keeps its ledger; its recording quality is evaluated and   *)
(* its anomalies are detected.                                             *)

QualityRows ==
    {Row("H1", 2024, <<0, 1>>, 5, 2, "31", "rice", 10000, TRUE),
     Row("H1", 2024, <<0, 1>>, 28, 2, NoCode, "veg", 5050, FALSE),
     Row("H1", 2024, <<0, 3>>, 9, 1, "21", "wage", 300000, FALSE)}

QualityFaults ==
    {{}, {"get_household_income_expense_data"},
     {"get_household_monthly_summary"}}

Q_Import == ImportRecord(QualityRows, MaxRows)

Q_Evaluate == EvaluateQuality({"H1"}, {NoWindow}, QualityFaults)

Q_Detect == DetectAnomalies({"H1"}, {NoWindow}, {{}})

NextQuality == Q_Import \/ Q_Evaluate \/ Q_Detect

SpecQuality == Init /\ [][NextQuality]_vars

QualityEvaluated ==
    op = "evaluate_household_quality" /\ ret.scores # <<>>

\* C1: whenever evaluate_household_quality scores a household, each of the
\* five sub-scores lies in [0, 100] and the total lies in [0, 100] and is
\* 0.25*frequency + 0.20*continuity + 0.20*time distribution
\* + 0.20*completeness + 0.15*consistency, rounded to two decimals (a
\* two-decimal value within 0.005 of the sum).
C1_QualityTotal ==
    QualityEvaluated =>
        LET sc == ret.scores
            sum == RAdd(RAdd(RAdd(RAdd(RMulInt(25, sc.frequency),
                                       RMulInt(20, sc.continuity)),
                                  RMulInt(20, sc.time_distribution)),
                             RMulInt(20, sc.completeness)),
                        RMulInt(15, sc.consistency))
        IN  /\ \A k \in ScoreKeys :
                  RLe(RInt(0), sc[k]) /\ RLe(sc[k], RInt(100))
            /\ ret.total \in 0..10000
            /\ LET d == RSub(RInt(ret.total), sum)
               IN  2 * Abs(d[1]) <= d[2]

\* a scored household whose sub-scores differ, the total not a whole number
C1_Witness ==
    /\ QualityEvaluated
    /\ ret.total % 100 # 0
    /\ ret.scores.frequency # ret.scores.continuity
    /\ ret.scores.consistency # ret.scores.completeness
    /\ ret.total > 0

\* the records evaluate_household_quality read for H1, none of its queries
\* failing
QualityData == get_household_income_expense_data(ledger, "H1", NoWindow, {})

\* exactly 80% of the household's records have integer-valued amounts
IntegerRatioIsFourFifths ==
    LET pattern == get_household_recording_patterns(ledger, "H1", NoWindow, {})
    IN  pattern.total > 0 /\ pattern.integer_ratio = Rat(4, 5)

NoExcessIntegerAnomaly ==
    \A k \in 1..Len(ret.anomalies) : ret.anomalies[k].kind # "too_many_integers"

\* C10 as stated: at an integer ratio of exactly 0.8 the integer-amount rule
\* deducts 0 from the consistency score and no 整数金额过多 anomaly is emitted.
C10_AsStated ==
    /\ (QualityEvaluated /\ args.faults = {} /\ IntegerRatioIsFourFifths) =>
          ret.scores.consistency =
              RMax(RInt(0), RSub(RInt(100 - 0 - PatternDeduction(QualityData)),
                                 DuplicateDeduction(QualityData)))
    /\ (op = "detect_household_anomalies" /\ IntegerRatioIsFourFifths) =>
          NoExcessIntegerAnomaly

\* C10 amended: at an integer ratio of exactly 0.8 the integer-amount rule
\* deducts 15 from the consistency score (0.8 is not above the 0.8 tier but is
\* above the 0.6 tier), and no 整数金额过多 anomaly is emitted.
C10_Amended ==
    /\ (QualityEvaluated /\ args.faults = {} /\ IntegerRatioIsFourFifths) =>
          /\ IntegerAmountDeduction(QualityData) = 15
          /\ ret.scores.consistency =
                 RMax(RInt(0),
                      RSub(RInt(100 - 15 - PatternDeduction(QualityData)),
                           DuplicateDeduction(QualityData)))
    /\ (op = "detect_household_anomalies" /\ IntegerRatioIsFourFifths) =>
          NoExcessIntegerAnomaly

\* five records, four of them with integer amounts, have been scored
C10_Witness ==
    /\ QualityEvaluated
    /\ args.faults = {}
    /\ IntegerRatioIsFourFifths
    /\ Len(ledger) = 5
    /\ RLe(ret.scores.consistency, RInt(85))

-----------------------------------------------------------------------------
(* Household H1 records in several months, some imported with an unpadded  *)
(* month ('2', as data_import stores a 月 column given that way).          *)

MonthRows ==
    {Row("H1", 2024, <<2>>, 5, 2, "31", "rice", 10050, TRUE),
     Row("H1", 2024, <<0, 9>>, 5, 2, "31", "rice", 10050, TRUE),
     Row("H1", 2024, <<1, 0>>, 5, 2, "31", "rice", 10050, TRUE),
     Row("H1", 2024, <<1, 2>>, 5, 2, "31", "rice", 10050, TRUE),
     Row("H1", 2023, <<1, 2>>, 5, 2, "31", "rice", 10050, TRUE)}

M_Import == ImportRecord(MonthRows, MaxRows)

M_Evaluate == EvaluateQuality({"H1"}, {NoWindow}, {{}})

NextMonths == M_Import \/ M_Evaluate

SpecMonths == Init /\ [][NextMonths]_vars

\* the calendar months in which H1 has records, as year * 12 + month
PresentMonths ==
    {ledger[i].year * 12 + ParseInt(ledger[i].month) :
       i \in {j \in 1..Len(ledger) : ledger[j].hudm = "H1"}}

\* calendar months absent between the first and the last present month
MissingMonths ==
    LET first == CHOOSE m \in PresentMonths : \A n \in PresentMonths : m <= n
        last  == CHOOSE m \in PresentMonths : \A n \in PresentMonths : m >= n
    IN  (last - first + 1) - Cardinality(PresentMonths)

\* C9: with one present month the continuity score is 60; otherwise, the
\* months taken in chronological (numeric) order, it is 100 when no calendar
\* month is missing between the first and last present month and
\* max(60, 100 - min(40, 5 * missing_months)) otherwise.
C9_Continuity ==
    QualityEvaluated =>
        ret.scores.continuity =
            IF Cardinality(PresentMonths) = 1 THEN RInt(60)
            ELSE IF MissingMonths = 0 THEN RInt(100)
            ELSE RInt(Max(60, 100 - Min(40, 5 * MissingMonths)))

\* months whose TEXT form is zero-padded: three present months with one
\* missing between them score 95
C9_Witness ==
    /\ QualityEvaluated
    /\ \A i \in 1..Len(ledger) : Len(ledger[i].month) = 2
    /\ Cardinality(PresentMonths) = 3
    /\ MissingMonths = 1
    /\ ret.scores.continuity = RInt(95)

-----------------------------------------------------------------------------
(* The anomaly score as a function of the severity counts.                 *)

ScoreInit ==
    /\ ledger = <<>>
    /\ op = "init"
    /\ args \in [severity_stats : [high : 0..MaxCount, medium : 0..MaxCount,
                                   low : 0..MaxCount],
                 total_records : 0..MaxRecords]
    /\ ret = <<>>
    /\ log = <<>>

CalculateAnomalyScore ==
    \E e \in FloatErr :
        /\ op' = "_calculate_anomaly_score"
        /\ ret' = _calculate_anomaly_score(args.severity_stats,
                                           args.total_records, e)
        /\ UNCHANGED <<ledger, args, log>>

SpecScore == ScoreInit /\ [][CalculateAnomalyScore]_vars

\* C2: the anomaly score is min(100, 100*(10*High + 5*Medium + 2*Low) /
\* (10*total_records)) to two decimals, lies in [0, 100], is 0 when
\* total_records is 0, and does not decrease when the High count grows with
\* Medium, Low and total_records fixed.
C2_AnomalyScore ==
    op = "_calculate_anomaly_score" =>
        LET st == args.severity_stats
            t  == args.total_records
            exact == IF t = 0 THEN RInt(0)
                     ELSE RMin(RInt(10000),
                               Rat(10000 * (10 * st.high + 5 * st.medium
                                            + 2 * st.low), 10 * t))
            d == RSub(RInt(ret), exact)
        IN  /\ ret \in 0..10000
            /\ t = 0 => ret = 0
            /\ 2 * Abs(d[1]) <= d[2]
            /\ \A h \in (st.high + 1)..(MaxCount + 1), e \in FloatErr :
                  ret <= _calculate_anomaly_score(
                             [st EXCEPT !.high = h], t, e)

\* a score strictly between 0 and 100 that a further High anomaly raises
C2_Witness ==
    /\ op = "_calculate_anomaly_score"
    /\ args.total_records > 0
    /\ args.severity_stats.high > 0
    /\ ret \in 1..9999
    /\ ret < _calculate_anomaly_score(
                 [args.severity_stats EXCEPT !.high = @ + 1],
                 args.total_records, 0)

-----------------------------------------------------------------------------
(* The comprehensive assessment as a function of the quality total and of  *)
(* the anomaly score.                                                      *)

\* the scores tried, in hundredths: a grid over [0, 100] and the values
\* 0.01, 12, 48, 85, 85.71 and 10
QualityTotals ==
    {k * GridStep : k \in 0..(10000 \div GridStep)} \cup {1, 4800, 8500, 8571}

AnomalyScores ==
    {k * GridStep : k \in 0..(10000 \div GridStep)} \cup {1000, 1200}

AssessInit ==
    /\ ledger = <<>>
    /\ op = "init"
    /\ \E q \in QualityTotals, a \in AnomalyScores :
          args = [profile |-> <<>>,
                  anomaly |-> [stats |-> [score |-> a]],
                  quality |-> [total |-> q]]
    /\ ret = <<>>
    /\ log = <<>>

GenerateComprehensiveAssessment ==
    /\ op' = "_generate_comprehensive_assessment"
    /\ ret' = _generate_comprehensive_assessment(
                  args.profile, args.anomaly, args.quality)
    /\ UNCHANGED <<ledger, args, log>>

SpecAssess == AssessInit /\ [][GenerateComprehensiveAssessment]_vars

\* 0.7*q + 0.3*(100 - a) for the arguments of the call
Composite ==
    Rat(7 * args.quality.total + 3 * (10000 - args.anomaly.stats.score), 1000)

\* the band of an exact score: >= 90, >= 80, >= 70, >= 60, else
Band(x) ==
    IF RLe(RInt(90), x) THEN "excellent"
    ELSE IF RLe(RInt(80), x) THEN "good"
    ELSE IF RLe(RInt(70), x) THEN "fair"
    ELSE IF RLe(RInt(60), x) THEN "poor"
    ELSE "very_poor"

\* C8: for q and a in [0, 100] the comprehensive score is
\* 0.7*q + 0.3*(100 - a) (read to the two decimals the report carries), lies
\* in [0, 100], and the level is the band of 0.7*q + 0.3*(100 - a):
\* >= 90 excellent, >= 80 good, >= 70 fair, >= 60 poor, else very poor;
\* q = 85, a = 10 gives 86.5 and good.
C8_Composite ==
    op = "_generate_comprehensive_assessment" =>
        LET d == RSub(RInt(ret.score), RMulInt(100, Composite))
        IN  /\ 2 * Abs(d[1]) <= d[2]
            /\ ret.score \in 0..10000
            /\ ret.level = Band(Composite)
            /\ (args.quality.total = 8500 /\ args.anomaly.stats.score = 1000)
                  => (ret.score = 8650 /\ ret.level = "good")

\* the scenario of the specification: q = 85, a = 10 gives 86.5 and good
C8_Witness ==
    /\ op = "_generate_comprehensive_assessment"
    /\ args.quality.total = 8500
    /\ args.anomaly.stats.score = 1000
    /\ ret.score = 8650
    /\ ret.level = "good"

\* q = 48, a = 12: the score reported is 60.0 and the level is very poor
C8_BoundaryBelow ==
    /\ op = "_generate_comprehensive_assessment"
    /\ args.quality.total = 4800
    /\ args.anomaly.stats.score = 1200
    /\ ret.score = 6000
    /\ ret.level = "very_poor"

-----------------------------------------------------------------------------
(* Three households share the ledger: H1 and H2 are on the roster, H3 is   *)
(* not.  The batch variants of the engines run on lists of their codes.    *)

FewRows ==
    {Row("H1", 2024, <<0, 1>>, 5, 2, "31", "rice", 10050, TRUE),
     Row("H2", 2024, <<0, 3>>, 9, 1, "21", "wage", 300000, FALSE),
     Row("H3", 2024, <<0, 1>>, 28, 2, NoCode, "veg", 5000, FALSE)}

B_Import == ImportRecord(FewRows, MaxFewRows)

NextBatch == B_Import \/ BatchProfiles \/ BatchAnomalies \/ BatchQuality

SpecBatch == Init /\ [][NextBatch]_vars

BatchOps ==
    {"generate_batch_profiles", "detect_batch_anomalies",
     "evaluate_batch_quality"}

\* what the single-household engine of the batch operation op returns for
\* household h when its queries do not fail
SingleResult(h) ==
    IF op = "generate_batch_profiles"
    THEN generate_household_profile(ledger, h, NoWindow, {}).r
    ELSE IF op = "detect_batch_anomalies"
    THEN detect_household_anomalies(ledger, h, NoWindow, {},
                                    OneFloatErr(0)).r
    ELSE evaluate_household_quality(ledger, h, NoWindow, {},
                                    OneFloatErr(0)).r

\* C3: in each batch variant, a household whose processing fails (a
\* data-access call for it raises) is absent from the returned map, and
\* every other household of the list is processed: it is in the map with
\* its result unless that result is empty.
C3_FailedHouseholdOmitted ==
    op \in BatchOps =>
        \A k \in 1..Len(args.codes) :
            LET h == args.codes[k]
            IN  IF h \in args.bad THEN h \notin DOMAIN ret
                ELSE SingleResult(h) # <<>> =>
                        (h \in DOMAIN ret /\ ret[h] = SingleResult(h))

\* a batch in which the queries of one household fail and another household
\* is processed
C3_Witness ==
    /\ op = "generate_batch_profiles"
    /\ args.codes = <<"H1", "H2">>
    /\ args.bad = {"H1"}
    /\ DOMAIN ret = {"H2"}

\* C4: for each batch variant and every input list, every key of the
\* returned map is a member of the list and the map has at most as many
\* entries as the list.
C4_BatchKeys ==
    op \in BatchOps =>
        /\ DOMAIN ret \subseteq Range(args.codes)
        /\ Cardinality(DOMAIN ret) <= Len(args.codes)

\* a list that names H1 twice yields the one entry of H1
C4_Witness ==
    /\ op = "generate_batch_profiles"
    /\ args.codes = <<"H1", "H1">>
    /\ args.bad = {}
    /\ DOMAIN ret = {"H1"}

-----------------------------------------------------------------------------
(* Reports and single analyses are asked for households with and without  *)
(* basic info, with and without a time window, while queries may fail.     *)

ReportRows ==
    {Row("H1", 2024, <<0, 1>>, 5, 2, "31", "rice", 10050, FALSE),
     Row("H1", 2024, <<0, 3>>, 9, 1, "21", "wage", 300000, FALSE),
     Row("H3", 2024, <<0, 1>>, 7, 2, NoCode, "veg", 5000, FALSE)}

\* start_year = '2024', start_month = '02'
FromFebruary == [start |-> [year |-> 2024, month |-> <<0, 2>>], end |-> NoBound]

ReportWindows == {NoWindow, FromFebruary}

\* no query fails, or the queries of one data-access method do
ReportFaults == {{}} \cup {{c} : c \in DalCalls}

R_Import == ImportRecord(ReportRows, MaxFewRows)

R_Report == GenerateReport(Households, ReportWindows, ReportFaults)

R_Profile == GenerateProfile(Households, ReportWindows, ReportFaults)

R_Detect == DetectAnomalies(Households, ReportWindows, ReportFaults)

R_Evaluate == EvaluateQuality(Households, ReportWindows, ReportFaults)

NextReport == R_Import \/ R_Report \/ R_Profile \/ R_Detect \/ R_Evaluate

SpecReport == Init /\ [][NextReport]_vars

ReportMade == op = "generate_household_analysis_report"

\* C5 (as stated): whenever a data-access call made while the report is
\* generated fails, the report has success = False and an error string; no
\* report with success = True is assembled from a failed call.
C5_FailurePropagates ==
    (ReportMade /\ Range(log) \cap args.faults # {}) =>
        (ret.success = FALSE /\ "error" \in DOMAIN ret)

\* the ledger query fails while the report of H1 is generated
C5_Witness ==
    /\ ReportMade
    /\ args.code = "H1"
    /\ args.faults = {"get_household_income_expense_data"}
    /\ "get_household_income_expense_data" \in Range(log)
    /\ Len(ledger) > 0

\* C6: the report of a household code without basic info is
\* {success: False, error: ...}, and nothing but the basic-info lookup has
\* been called for it: neither the enrichment nor any of the three engines.
C6_NoBasicInfo ==
    (ReportMade /\ get_household_basic_info(ledger, args.code, args.faults) = <<>>) =>
        /\ ret.success = FALSE
        /\ "error" \in DOMAIN ret
        /\ log = <<"get_household_basic_info">>

\* H3 is neither in the roster nor in the ledger, which holds other rows
C6_Witness ==
    /\ ReportMade
    /\ args.code = "H3"
    /\ args.faults = {}
    /\ Len(ledger) > 0
    /\ \A i \in 1..Len(ledger) : ledger[i].hudm # "H3"
    /\ ret.success = FALSE
    /\ log = <<"get_household_basic_info">>

\* the household of the call has no ledger row inside the window of the call
NoRecordInWindow ==
    \A i \in 1..Len(ledger) :
        ledger[i].hudm = args.code => ~InWindow(ledger[i], args.window)

\* C7: for a household with no ledger record in the requested window,
\* generate_household_profile returns the empty profile,
\* detect_household_anomalies an empty anomaly list, and
\* evaluate_household_quality the level 数据不足 with 总评分 0; each returns
\* a result.
C7_NoRecords ==
    NoRecordInWindow =>
        /\ op = "generate_household_profile" => ret = <<>>
        /\ op = "detect_household_anomalies" =>
              ret.code = args.code /\ ret.anomalies = <<>>
        /\ op = "evaluate_household_quality" =>
              ret.code = args.code /\ ret.level = "insufficient" /\ ret.total = 0

\* H1 has a record in January 2024 and none from February on; no query fails
C7_Witness ==
    /\ op = "evaluate_household_quality"
    /\ args.code = "H1"
    /\ args.window = FromFebruary
    /\ args.faults = {}
    /\ \E i \in 1..Len(ledger) : ledger[i].hudm = "H1"
    /\ NoRecordInWindow
    /\ ret.level = "insufficient"

-----------------------------------------------------------------------------
(* The scenario of three records in one month: amounts 100.00, 200.00 and  *)
(* 50.50 on distinct dates, each an income or an expense, coded or not.    *)

ScenarioAmounts == {10000, 20000, 5050}

\* the day and the item name follow the amount, so that no two records with
\* different amounts share a date or a name
ScenarioRows ==
    {Row("H1", 2024, <<0, 1>>, a \div 1000, t,
         IF coded THEN (IF t = 1 THEN "21" ELSE "31") ELSE NoCode,
         IF a = 10000 THEN "rice" ELSE IF a = 20000 THEN "veg" ELSE "misc",
         a, FALSE) :
        a \in ScenarioAmounts, t \in {1, 2}, coded \in BOOLEAN}

S_Import == ImportRecord(ScenarioRows, MaxScenarioRows)

S_Detect == DetectAnomalies({"H1"}, {NoWindow}, {{}})

NextScenario == S_Import \/ S_Detect

SpecScenario == Init /\ [][NextScenario]_vars

\* the ledger holds the three records of the scenario: the three amounts,
\* two of the records coded and one not
ScenarioLedger ==
    /\ Len(ledger) = 3
    /\ {ledger[i].money : i \in 1..3} = ScenarioAmounts
    /\ Cardinality({i \in 1..3 : ledger[i].code # NoCode}) = 2

\* C11 (as stated): for the three records of the scenario, whatever their
\* income/expense types, detect_household_anomalies returns an empty
\* anomaly list and the anomaly score 0.
C11_ScenarioClean ==
    (op = "detect_household_anomalies" /\ ScenarioLedger) =>
        (ret.anomalies = <<>> /\ ret.stats.score = 0)

\* the three records are incomes: nothing is reported
C11_Witness ==
    /\ op = "detect_household_anomalies"
    /\ ScenarioLedger
    /\ \A i \in 1..3 : ledger[i].type = 1
    /\ ret.anomalies = <<>>
    /\ ret.stats.score = 0

-----------------------------------------------------------------------------
(* The balance anomalies as a function of a month's income and expense.    *)

\* 收入总额 and 支出总额 tried, in hundredths: multiples of 500.00, and
\* 0.70, 1.40, 28.70, 1000.00 with 1.05, 2.10, 43.05, 2500.00
Incomes ==
    {k * 50000 : k \in 0..MaxBalanceSteps} \cup {70, 140, 2870, 100000}

Expenses ==
    {k * 50000 : k \in 0..MaxBalanceSteps} \cup {105, 210, 4305, 250000}

BalanceInit ==
    /\ ledger = <<>>
    /\ op = "init"
    /\ args \in [year : {2024}, month : {<<0, 1>>},
                 income : Incomes, expense : Expenses]
    /\ ret = <<>>
    /\ log = <<>>

DetectBalanceAnomalies ==
    /\ op' = "_detect_balance_anomalies"
    /\ ret' = _detect_balance_anomalies(<<args>>)
    /\ UNCHANGED <<ledger, args, log>>

SpecBalance == BalanceInit /\ [][DetectBalanceAnomalies]_vars

\* the anomaly the rules name for a month, as <<kind, severity>>, on the
\* amounts themselves
BalanceRule(income, expense) ==
    IF income > 0 /\ expense > 2 * income
    THEN <<<<"severe_imbalance", "high">>>>
    ELSE IF income > 0 /\ 2 * expense > 3 * income
    THEN <<<<"imbalance", "medium">>>>
    ELSE IF income = 0 /\ expense > 0
    THEN <<<<"zero_income", "medium">>>>
    ELSE <<>>

\* C12 (as stated): a month yields exactly the one balance anomaly its
\* income and expense call for, and none otherwise: 收支严重倒挂 (高) when
\* income > 0 and expense > 2*income, 收支倒挂 (中) when income > 0 and
\* 1.5*income < expense <= 2*income, 零收入有支出 (中) when income = 0 and
\* expense > 0.
C12_BalanceRules ==
    op = "_detect_balance_anomalies" =>
        [k \in 1..Len(ret) |-> <<ret[k].kind, ret[k].severity>>]
            = BalanceRule(args.income, args.expense)

\* income 1000 and expense 2500 yield the one 高 anomaly
C12_Witness ==
    /\ op = "_detect_balance_anomalies"
    /\ args.income = 100000
    /\ args.expense = 250000
    /\ Len(ret) = 1
    /\ ret[1].kind = "severe_imbalance"
    /\ ret[1].severity = "high"

-----------------------------------------------------------------------------
(* A single-household engine is asked again, with the arguments of the     *)
(* call before, on the ledger as it was.                                   *)

SingleEngines == {"generate_household_profile", "detect_household_anomalies",
                  "evaluate_household_quality"}

\* the engine entry point of that name on database db with arguments a
EngineCall(name, db, a) ==
    CASE name = "generate_household_profile" ->
            generate_household_profile(db, a.code, a.window, a.faults)
      [] name = "detect_household_anomalies" ->
            detect_household_anomalies(db, a.code, a.window, a.faults, a.fp)
      [] name = "evaluate_household_quality" ->
            evaluate_household_quality(db, a.code, a.window, a.faults, a.fp)

\* the same engine object is called once more with the same arguments
CallAgain ==
    /\ op \in SingleEngines
    /\ args.call < MaxCalls
    /\ LET out == EngineCall(op, ledger, args)
       IN  /\ ret' = out.r
           /\ log' = out.log
    /\ args' = [args EXCEPT !.call = @ + 1]
    /\ UNCHANGED <<ledger, op>>

T_Import == ImportRecord(QualityRows, MaxFewRows)

T_Profile == GenerateProfile({"H1", "H3"}, ReportWindows, QualityFaults)

T_Detect == DetectAnomalies({"H1", "H3"}, ReportWindows, QualityFaults)

T_Evaluate == EvaluateQuality({"H1", "H3"}, ReportWindows, QualityFaults)

NextTwice == T_Import \/ T_Profile \/ T_Detect \/ T_Evaluate \/ CallAgain

SpecTwice == Init /\ [][NextTwice]_vars

-----------------------------------------------------------------------------
(* Area reports: a town and a village name are resolved to the household   *)
(* codes of the roster, and the batch report is made for them.             *)

\* 乡镇 names asked for: none, or a town of the village list
TownNames == {NoName, "T1", "T2"}

\* 村庄 names asked for
VillageNames == {NoName, "A", "B"}

\* the area lookup works or fails
AreaFaults == {{}, {"get_households_by_area"}}

A_Import == ImportRecord(FewRows, MaxFewRows)

AreaReport ==
    /\ NoCallYet
    /\ \E town \in TownNames, village \in VillageNames, win \in ReportWindows,
          faults \in AreaFaults, bad \in {{}, {"H2"}}, e \in {0},
          fp \in FloatErr :
           \E out \in {generate_area_analysis_report(
                           ledger, town, village, win, faults, FaultsOf(bad),
                           [h \in Households |-> e], fp)} :
               /\ op' = "generate_area_analysis_report"
               /\ args' = [town |-> town, village |-> village, window |-> win,
                           faults |-> faults, bad |-> bad, e |-> e, fp |-> fp]
               /\ ret' = out.r
               /\ log' = out.log
               /\ UNCHANGED ledger

NextArea == A_Import \/ AreaReport

SpecArea == Init /\ [][NextArea]_vars

\* the households of the roster that live in a village of the area asked
\* for, in the order of their codes
ResolvedCodes ==
    IF "get_households_by_area" \in args.faults THEN <<>>
    ELSE SortedCodes({h \in Roster :
            \E v \in VillageList :
                /\ v.code = VillageCodeOf[h]
                /\ args.town \in {NoName, v.town}
                /\ args.village \in {NoName, v.village}})

BatchEngines == {"generate_batch_profiles", "detect_batch_anomalies",
                 "evaluate_batch_quality"}

\* C15: an area report of an area that resolves to no household code fails
\* and runs no batch engine; otherwise it is the batch report of exactly the
\* resolved codes, with the town, the village and the number of resolved
\* codes as the area information of its metadata
C15_AreaReport ==
    op = "generate_area_analysis_report" =>
        LET batch == generate_batch_analysis_report(
                         ledger, ResolvedCodes, args.window,
                         FaultsOf(args.bad), [h \in Households |-> args.e],
                         args.fp).r
        IN  IF ResolvedCodes = <<>>
            THEN /\ ret.success = FALSE
                 /\ Range(log) \cap BatchEngines = {}
            ELSE /\ ret.success = TRUE
                 /\ ret.batch_statistics = batch.batch_statistics
                 /\ ret.detailed_results = batch.detailed_results
                 /\ ret.report_metadata.households = Len(ResolvedCodes)
                 /\ ret.report_metadata.window = args.window
                 /\ ret.report_metadata.area =
                        [town |-> args.town, village |-> args.village,
                         households |-> Len(ResolvedCodes)]

\* the report of town T2, where one household of the roster lives and has a
\* record
C15_Witness ==
    /\ op = "generate_area_analysis_report"
    /\ args.town = "T2" /\ args.village = NoName /\ args.faults = {}
    /\ ret.success = TRUE
    /\ ret.report_metadata.area.households = 1
    /\ DOMAIN ret.detailed_results.quality_assessments = {"H2"}
    /\ ret.batch_statistics.overview.valid = 1

\* village B of town T1, where no household of the roster lives: the lookup
\* is the only step taken
EmptyAreaReport ==
    /\ op = "generate_area_analysis_report"
    /\ args.town = "T1" /\ args.village = "B" /\ args.faults = {}
    /\ ret.success = FALSE
    /\ log = <<"get_households_by_area">>

-----------------------------------------------------------------------------
(* Reports of one household and of a batch are exported as JSON text.      *)

E_Import == ImportRecord(ReportRows, MaxFewRows)

Export(kind, report) ==
    /\ op' = "export_report_to_json"
    /\ args' = [kind |-> kind, report |-> report]
    /\ ret' = export_report_to_json(report)
    /\ log' = <<>>
    /\ UNCHANGED ledger

ExportHouseholdReport ==
    /\ NoCallYet
    /\ \E hh \in Households, win \in ReportWindows, faults \in ReportFaults :
         \E report \in {PyHouseholdReport(
                            generate_household_analysis_report(
                                ledger, hh, win, faults, OneFloatErr(0)).r,
                            hh, win)} :
            Export("household", report)

ExportBatchReport ==
    /\ NoCallYet
    /\ \E codes \in BatchLists, win \in ReportWindows,
          bad \in {{}, {"H1"}}, fp \in FloatErr :
         \E report \in {PyBatchReport(
                            generate_batch_analysis_report(
                                ledger, codes, win, FaultsOf(bad),
                                [h \in Households |-> 0], fp).r,
                            win)} :
            Export("batch", report)

NextExport == E_Import \/ ExportHouseholdReport \/ ExportBatchReport

SpecExport == Init /\ [][NextExport]_vars

\* dict[key] for a str key of the dict
PyGet(dict, key) ==
    dict.v[CHOOSE i \in 1..Len(dict.v) : dict.v[i][1] = PyStr(key)][2]

BatchReportExported ==
    /\ op = "export_report_to_json"
    /\ ret.j = "object"
    /\ args.kind = "batch"
    /\ Len(PyGet(PyGet(args.report, "detailed_results"),
                 "quality_assessments").v) > 0

-----------------------------------------------------------------------------
(* The time window of the detail query.  The ledger holds the months as    *)
(* two-digit texts; a bound of the window gives its month as '3', '03' or  *)
(* '10'.                                                                   *)

WindowRows ==
    {Row("H1", 2023, <<1, 0>>, 5, 2, "31", "rice", 10050, FALSE),
     Row("H1", 2024, <<0, 1>>, 5, 2, "31", "rice", 10050, FALSE),
     Row("H1", 2024, <<0, 3>>, 9, 1, "21", "wage", 300000, FALSE),
     Row("H1", 2024, <<1, 0>>, 7, 2, "31", "rice", 5000, FALSE),
     Row("H2", 2024, <<0, 3>>, 7, 2, "31", "rice", 5000, FALSE)}

\* start_year and start_month, or end_year and end_month, as passed
WindowBounds ==
    {NoBound} \cup [year : {2023, 2024}, month : {<<3>>, <<0, 3>>, <<1, 0>>}]

W_Import == ImportRecord(WindowRows, MaxFewRows)

GetIncomeExpenseData ==
    \E hh \in {"H1", "H2"}, start \in WindowBounds, end \in WindowBounds,
       faults \in {{}, {"get_household_income_expense_data"}} :
        LET win == [start |-> start, end |-> end]
        IN  Call("get_household_income_expense_data", hh, win, faults,
                 OneFloatErr(0),
                 [r   |-> get_household_income_expense_data(ledger, hh, win,
                                                            faults),
                  log |-> <<"get_household_income_expense_data">>])

NextWindow == W_Import \/ GetIncomeExpenseData

SpecWindow == Init /\ [][NextWindow]_vars

\* (year, month) of the row lies in the window, the months compared as
\* numbers
NumericInWindow(row, win) ==
    /\ win.start # NoBound =>
          \/ row.year > win.start.year
          \/ /\ row.year = win.start.year
             /\ ParseInt(row.month) >= ParseInt(win.start.month)
    /\ win.end # NoBound =>
          \/ row.year < win.end.year
          \/ /\ row.year = win.end.year
             /\ ParseInt(row.month) <= ParseInt(win.end.month)

\* the records returned by the last call, by their ids
ReturnedIds == {ret[k].id : k \in 1..Len(ret)}

DataQueried ==
    op = "get_household_income_expense_data" /\ args.faults = {}

\* C16: get_household_income_expense_data returns a record of the household
\* if and only if its (year, month), compared numerically, lies within the
\* bounds supplied, both inclusive, an omitted bound leaving its side open; a
\* month passed as '3' selects the records that '03' selects
C16_WindowNumeric ==
    DataQueried =>
        ReturnedIds = {i \in 1..Len(ledger) :
                          /\ ledger[i].hudm = args.code
                          /\ NumericInWindow(ledger[i], args.window)}

\* from March 2024 on, the month passed as '03': the records of March and
\* of October are returned
C16_Witness ==
    /\ DataQueried
    /\ args.window = [start |-> [year |-> 2024, month |-> <<0, 3>>],
                      end |-> NoBound]
    /\ Cardinality(ReturnedIds) = 2
    /\ \A k \in 1..Len(ret) : ret[k].month \in {<<0, 3>>, <<1, 0>>}

\* with two-digit months in the bounds the window is the numeric one
TwoDigitWindow ==
    (/\ DataQueried
     /\ args.window.start # NoBound => Len(args.window.start.month) = 2
     /\ args.window.end # NoBound => Len(args.window.end.month) = 2)
    => ReturnedIds = {i \in 1..Len(ledger) :
                         /\ ledger[i].hudm = args.code
                         /\ NumericInWindow(ledger[i], args.window)}

\* from '3' of 2024 on, no record of 2024 is returned though the ledger
\* holds one of March or of October
StartMonthThree ==
    /\ DataQueried
    /\ args.window = [start |-> [year |-> 2024, month |-> <<3>>],
                      end |-> NoBound]
    /\ ReturnedIds = {}
    /\ \E i \in 1..Len(ledger) :
          /\ ledger[i].hudm = args.code /\ ledger[i].year = 2024
          /\ ParseInt(ledger[i].month) >= 3

-----------------------------------------------------------------------------
(* The amount detector on records and benchmarks of its own: amounts,      *)
(* means and deviations are multiples of 25.00, which doubles hold and add *)
(* exactly.                                                                *)

MaxAmountSteps == 9

\* a record of the detail query, as far as the detector reads it
AmountRecord(id, code, type, money) ==
    [id |-> id, code |-> code, type |-> type, money |-> money,
     item |-> "rice", date |-> <<2024, 1, 5>>]

AmountRecords ==
    {AmountRecord(1, code, type, k * 2500) :
        code \in {"31", NoCode}, type \in {1, 2}, k \in (-1)..MaxAmountSteps}

\* 平均金额 100.00 with 标准差 0 or 25.00, for expenses of prefix 31 and
\* for its incomes, or for none
AmountBenchmarks ==
    UNION {[K -> [mean : {RInt(10000)}, std : {RInt(0), RInt(2500)}]] :
              K \in SUBSET {<<"31", 1>>, <<"31", 2>>}}

AmountInit ==
    /\ ledger = <<>>
    /\ op = "init"
    /\ \E first \in AmountRecords, benchmarks \in AmountBenchmarks :
          \E data \in {<<first>>,
                       <<first, AmountRecord(2, "31", 2, 20000)>>,
                       <<first, AmountRecord(2, "31", 2, 10000)>>} :
              args = [data |-> data, benchmarks |-> benchmarks]
    /\ ret = <<>>
    /\ log = <<>>

DetectAmountAnomalies ==
    /\ op' = "_detect_amount_anomalies"
    /\ ret' = _detect_amount_anomalies(args.data, args.benchmarks)
    /\ UNCHANGED <<ledger, args, log>>

SpecAmount == AmountInit /\ [][DetectAmountAnomalies]_vars

\* the amount anomaly the rules name for a record, as <<id, kind, severity>>
\* in a list, on the amounts themselves (mean m and deviation s in
\* hundredths)
AmountRule(record, benchmarks) ==
    LET key == <<record.code, record.type>>
        m == benchmarks[key].mean[1]
        s == benchmarks[key].std[1]
        amount == record.money
    IN  IF record.code = NoCode \/ amount <= 0 \/ key \notin DOMAIN benchmarks
        THEN <<>>
        ELSE IF amount < m - 3 * s \/ amount > m + 3 * s
        THEN <<<<record.id, "extreme_amount", "high">>>>
        ELSE IF amount < m - 2 * s \/ amount > m + 2 * s
        THEN <<<<record.id, "amount", "medium">>>>
        ELSE <<>>

-----------------------------------------------------------------------------
(* The benchmarks of the amount detector: the ledger grows to ten records  *)
(* of one code prefix and type, some of them without code.                 *)

MaxBenchRows == 10

BenchRows ==
    {Row("H1", 2024, <<0, 1>>, 5, 2, "31", "rice", 10000, FALSE),
     Row("H2", 2024, <<0, 1>>, 6, 2, "31", "rice", 20000, FALSE),
     Row("H1", 2024, <<0, 1>>, 7, 2, NoCode, "veg", 5000, FALSE)}

G_Import == ImportRecord(BenchRows, MaxBenchRows)

GetStatisticalBenchmarks ==
    \E faults \in {{}, {"get_statistical_benchmarks"}} :
        Call("get_statistical_benchmarks", "H1", NoWindow, faults,
             OneFloatErr(0),
             [r   |-> get_statistical_benchmarks(ledger, faults),
              log |-> <<"get_statistical_benchmarks">>])

NextBench == G_Import \/ GetStatisticalBenchmarks

SpecBench == Init /\ [][NextBench]_vars

\* the coded records with a positive amount of a code prefix and type
BenchGroup(key) ==
    {i \in 1..Len(ledger) :
        /\ ledger[i].code # NoCode /\ ledger[i].money > 0
        /\ <<ledger[i].code, ledger[i].type>> = key}

\* C18: every benchmark of get_statistical_benchmarks aggregates at least 10
\* coded records with a positive amount of one code prefix and type, and its
\* 标准差 is the standard deviation of their amounts: it is not zero when the
\* amounts are not all equal, so that the 2-sigma and the 3-sigma bounds of
\* the amount detector differ
C18_Benchmarks ==
    op = "get_statistical_benchmarks" =>
        \A key \in DOMAIN ret :
            /\ ret[key].count = Cardinality(BenchGroup(key))
            /\ ret[key].count >= 10
            /\ (\E i, k \in BenchGroup(key) : ledger[i].money # ledger[k].money)
               => /\ ret[key].std # RInt(0)
                  /\ RSub(ret[key].mean, RMulInt(2, ret[key].std))
                     # RSub(ret[key].mean, RMulInt(3, ret[key].std))

\* ten coded expenses of 100.00: the benchmark of their prefix has the mean
\* 100.00 and the deviation 0
C18_Witness ==
    /\ op = "get_statistical_benchmarks"
    /\ DOMAIN ret = {<<"31", 2>>}
    /\ ret[<<"31", 2>>].count = 10
    /\ ret[<<"31", 2>>].mean = RInt(10000)
    /\ ret[<<"31", 2>>].std = RInt(0)

\* nine coded records and one without code: no benchmark
NineCodedRecords ==
    /\ op = "get_statistical_benchmarks"
    /\ args.faults = {}
    /\ Len(ledger) = 10
    /\ Cardinality(BenchGroup(<<"31", 2>>)) = 9
    /\ ret = <<>>

\* the count of a benchmark is that of its group and at least 10
BenchmarkCounts ==
    op = "get_statistical_benchmarks" =>
        \A key \in DOMAIN ret :
            /\ ret[key].count = Cardinality(BenchGroup(key))
            /\ ret[key].count >= 10

-----------------------------------------------------------------------------
(* Profiles of a household whose ledger holds incomes only, expenses only, *)
(* or both.                                                                *)

MaxProfileRows == 3

ProfileRows ==
    {Row("H1", 2024, <<0, 1>>, 9, 1, "21", "wage", 300000, FALSE),
     Row("H1", 2024, <<0, 2>>, 9, 1, "22", "sales", 120000, FALSE),
     Row("H1", 2024, <<0, 1>>, 5, 2, "31", "rice", 10050, FALSE),
     Row("H1", 2024, <<0, 2>>, 7, 2, NoCode, "veg", 5000, FALSE),
     Row("H2", 2024, <<0, 1>>, 7, 2, "31", "rice", 5000, FALSE)}

P_Import == ImportRecord(ProfileRows, MaxProfileRows)

P_Profile == GenerateProfile({"H1", "H2"}, {NoWindow}, {{}})

NextProfile == P_Import \/ P_Profile

SpecProfile == Init /\ [][NextProfile]_vars

\* the total of the amounts of the household's records of a type (1 income,
\* 2 expense)
TotalOfType(type) ==
    LET rows == {i \in 1..Len(ledger) :
                    ledger[i].hudm = args.code /\ ledger[i].type = type}
    IN  SumSet([i \in rows |-> ledger[i].money], rows)

ProfileGenerated == op = "generate_household_profile" /\ ret # <<>>

\* C19: in a generated profile, a tag dimension whose total is <= 0 (the
\* total expense for structure, level, lifestyle and preference, the total
\* income for financial health and income structure) has the single tag
\* 数据不足
C19_InsufficientData ==
    ProfileGenerated =>
        /\ TotalOfType(2) <= 0 =>
              /\ ret.structure_tags = <<"insufficient">>
              /\ ret.level_tags = <<"insufficient">>
              /\ ret.lifestyle_tags = <<"insufficient">>
              /\ ret.preference_tags = <<"insufficient">>
        /\ TotalOfType(1) <= 0 =>
              /\ ret.financial_tags = <<"insufficient">>
              /\ ret.income_tags = <<"insufficient">>

\* a household with a wage and no expense: its structure, lifestyle and
\* preference tags are 数据不足
C19_Witness ==
    /\ ProfileGenerated
    /\ TotalOfType(1) > 0 /\ TotalOfType(2) = 0
    /\ ret.structure_tags = <<"insufficient">>
    /\ ret.lifestyle_tags = <<"insufficient">>
    /\ ret.preference_tags = <<"insufficient">>

\* the four dimensions computed over the category summary follow the rule
CategoryDimensions ==
    ProfileGenerated =>
        /\ TotalOfType(2) <= 0 =>
              /\ ret.structure_tags = <<"insufficient">>
              /\ ret.lifestyle_tags = <<"insufficient">>
              /\ ret.preference_tags = <<"insufficient">>
        /\ TotalOfType(1) <= 0 => ret.income_tags = <<"insufficient">>

\* a household with a wage and no expense is a 低消费户
NoExpenseLevel ==
    /\ ProfileGenerated
    /\ TotalOfType(2) = 0
    /\ ret.level_tags = <<"low_spending">>

\* a household with expenses and no income is 收支失衡型
NoIncomeFinancialHealth ==
    /\ ProfileGenerated
    /\ TotalOfType(1) = 0
    /\ ret.financial_tags = <<"imbalanced">>

\* the expense records of the household
ExpenseRecords ==
    {i \in 1..Len(ledger) : ledger[i].hudm = args.code /\ ledger[i].type = 2}

\* C20: the 消费习惯 of the profile of a household with an expense record
\* has one entry per item name of its expense records, with the total
\* amount and the frequency of the item (its average is their quotient, its
\* share the total over the total expense); it is not empty, and its shares
\* sum to 1, when the total expense is > 0
C20_Habits ==
    (ProfileGenerated /\ ExpenseRecords # {}) =>
        LET named(n) == {i \in ExpenseRecords : ledger[i].type_name = n}
        IN  /\ {h.category : h \in ret.habits}
               = {ledger[i].type_name : i \in ExpenseRecords}
            /\ \A h \in ret.habits :
                  /\ h.frequency = Cardinality(named(h.category))
                  /\ h.total = SumSet([i \in named(h.category) |->
                                          ledger[i].money], named(h.category))
            /\ TotalOfType(2) > 0 =>
                  /\ ret.habits # {}
                  /\ SumSet([h \in ret.habits |-> h.total], ret.habits)
                     = TotalOfType(2)

\* the profile of a household with a coded and an uncoded expense is
\* generated
C20_Witness ==
    /\ ProfileGenerated
    /\ Cardinality({ledger[i].type_name : i \in ExpenseRecords}) = 2
    /\ TotalOfType(2) = 15050

\* 消费习惯 is empty in every profile
HabitsEmpty == ProfileGenerated => ret.habits = {}

-----------------------------------------------------------------------------
(* Profiles of a household with many food records: between 8 and           *)
(* MaxFoodNames item names of prefix 31, a housing expense and an expense  *)
(* without code.                                                           *)

MaxFoodNames == 12

\* n food records of 10.00 with n item names, `again` more with the first
\* name, a rent and an uncoded expense (left out when their amount is 0)
FoodLedger(n, again, rent, uncoded) ==
    [k \in 1..n |->
        Row("H1", 2024, <<0, 1>>, k, 2, "31", ToString(k), 1000, FALSE)]
    \o [k \in 1..again |->
        Row("H1", 2024, <<0, 1>>, 20 + k, 2, "31", ToString(1), 1000, FALSE)]
    \o (IF rent = 0 THEN <<>>
        ELSE <<Row("H1", 2024, <<0, 1>>, 25, 2, "33", "rent", rent, FALSE)>>)
    \o (IF uncoded = 0 THEN <<>>
        ELSE <<Row("H1", 2024, <<0, 1>>, 26, 2, NoCode, "fair", uncoded,
                   FALSE)>>)

FoodInit ==
    /\ \E n \in 8..MaxFoodNames, again \in 0..1,
          rent \in {0, 10000, 20000, 40000}, uncoded \in {0, 100000} :
          ledger = FoodLedger(n, again, rent, uncoded)
    /\ op = "init"
    /\ args = <<>>
    /\ ret = <<>>
    /\ log = <<>>

F_Profile == GenerateProfile({"H1"}, {NoWindow}, {{}})

SpecFoodie == FoodInit /\ [][F_Profile]_vars

\* the household's expense records of prefix 31
FoodRecords == {i \in ExpenseRecords : ledger[i].code = "31"}

FoodNames == {ledger[i].type_name : i \in FoodRecords}

FoodTotal == SumSet([i \in FoodRecords |-> ledger[i].money], FoodRecords)

IsFoodie == "foodie" \in Range(ret.preference_tags)

\* C21: the preference tags hold 美食爱好者 if and only if the food (prefix
\* 31) share of the total expense is > 0.35 and the prefix-31 expense records
\* carry at least 10 distinct item names
C21_Foodie ==
    ProfileGenerated =>
        (IsFoodie <=> /\ 100 * FoodTotal > 35 * TotalOfType(2)
                      /\ Cardinality(FoodNames) >= 10)

\* eleven food names, no other expense: 美食爱好者
C21_Witness ==
    /\ ProfileGenerated
    /\ Cardinality(FoodNames) = 11
    /\ FoodTotal = TotalOfType(2)
    /\ IsFoodie

\* the tag as the code gives it: more than 10 names, and the share taken of
\* the coded expenses
FoodieAsCoded ==
    ProfileGenerated =>
        LET coded == {i \in ExpenseRecords : ledger[i].code # NoCode}
        IN  IsFoodie <=>
               /\ 100 * FoodTotal
                  > 35 * SumSet([i \in coded |-> ledger[i].money], coded)
               /\ Cardinality(FoodNames) > 10

\* ten food names and no other expense: no 美食爱好者
TenFoodNames ==
    /\ ProfileGenerated
    /\ Cardinality(FoodNames) = 10
    /\ FoodTotal = TotalOfType(2)
    /\ ~ IsFoodie

\* eleven food names of 110.00 in all and an uncoded expense of 1000.00:
\* 美食爱好者 with a food share below 0.1
UncodedExpenseIgnored ==
    /\ ProfileGenerated
    /\ Cardinality(FoodNames) = 11
    /\ FoodTotal = 11000 /\ TotalOfType(2) = 111000
    /\ IsFoodie


-----------------------------------------------------------------------------
(* The report of one household, step by step: the basic information is     *)
(* looked up, then the enrichment and the three engines each fill their    *)
(* entry of the report, and the comprehensive assessment closes it.        *)

ReportSteps == {"_enrich_basic_info", "generate_household_profile",
                "detect_household_anomalies", "evaluate_household_quality"}

\* the steps that generate_household_analysis_report has made before `step`
StepsBefore(step) ==
    CASE step = "_enrich_basic_info" -> {}
      [] step = "generate_household_profile" -> {"_enrich_basic_info"}
      [] step = "detect_household_anomalies" ->
            {"_enrich_basic_info", "generate_household_profile"}
      [] step = "evaluate_household_quality" ->
            ReportSteps \ {"evaluate_household_quality"}

\* the entry of the report that a step fills
FieldOf(step) ==
    CASE step = "_enrich_basic_info" -> "household_basic_info"
      [] step = "generate_household_profile" -> "consumption_profile"
      [] step = "detect_household_anomalies" -> "anomaly_detection"
      [] step = "evaluate_household_quality" -> "quality_assessment"

\* what a step computes on database db for the report under way
StepResult(step, db) ==
    CASE step = "_enrich_basic_info" ->
            _enrich_basic_info(ret.household_basic_info, db, args.code,
                               args.window, args.faults)
      [] step = "generate_household_profile" ->
            generate_household_profile(db, args.code, args.window,
                                       args.faults)
      [] step = "detect_household_anomalies" ->
            detect_household_anomalies(db, args.code, args.window,
                                       args.faults, args.fp)
      [] step = "evaluate_household_quality" ->
            evaluate_household_quality(db, args.code, args.window,
                                       args.faults, args.fp)

\* generate_household_analysis_report up to the basic information: without
\* it the call returns; `done` holds the steps made and `db` the ledger as
\* the call found it
BeginReport(hhs, wins, faultSets, fps) ==
    /\ NoCallYet
    /\ \E hh \in hhs, win \in wins, faults \in faultSets, fp \in fps :
         \E basic_info \in {get_household_basic_info(ledger, hh, faults)} :
          /\ args' = [code |-> hh, window |-> win, faults |-> faults,
                      fp |-> fp, call |-> 1, done |-> {}, db |-> ledger]
          /\ log' = <<"get_household_basic_info">>
          /\ IF basic_info = <<>>
             THEN /\ op' = "generate_household_analysis_report"
                  /\ ret' = [success |-> FALSE,
                             error |-> "household_not_found"]
             ELSE /\ op' = "report_under_way"
                  /\ ret' = [success |-> TRUE,
                             household_basic_info |-> basic_info,
                             consumption_profile |-> <<>>,
                             anomaly_detection |-> <<>>,
                             quality_assessment |-> <<>>]
    /\ UNCHANGED ledger

\* a step that takes the rows it has read out of the table
RunStepConsuming(step) ==
    /\ op = "report_under_way"
    /\ step \notin args.done
    /\ \E out \in {StepResult(step, ledger)} :
          /\ ret' = [ret EXCEPT ![FieldOf(step)] = out.r]
          /\ log' = log \o <<step>> \o out.log
    /\ args' = [args EXCEPT !.done = @ \cup {step}]
    /\ ledger' = <<>>
    /\ UNCHANGED op

\* one step of the report: it reads the ledger as it stands and fills its
\* entry; it writes neither the database nor an entry of another step
RunStep(step) ==
    /\ op = "report_under_way"
    /\ step \notin args.done
    /\ \E out \in {StepResult(step, ledger)} :
          /\ ret' = [ret EXCEPT ![FieldOf(step)] = out.r]
          /\ log' = log \o <<step>> \o out.log
    /\ args' = [args EXCEPT !.done = @ \cup {step}]
    /\ UNCHANGED <<ledger, op>>

\* the comprehensive assessment is made of the three results and the report
\* is returned
FinishReport ==
    /\ op = "report_under_way"
    /\ args.done = ReportSteps
    /\ op' = "generate_household_analysis_report"
    /\ ret' = [success |-> TRUE,
               household_basic_info |-> ret.household_basic_info,
               consumption_profile |-> ret.consumption_profile,
               anomaly_detection |-> ret.anomaly_detection,
               quality_assessment |-> ret.quality_assessment,
               comprehensive_assessment |->
                   _generate_comprehensive_assessment(
                       ret.consumption_profile, ret.anomaly_detection,
                       ret.quality_assessment)]
    /\ UNCHANGED <<ledger, args, log>>

-----------------------------------------------------------------------------
(* The enrichment and the engines of one report run in any order.          *)

OrderFaults == {{}, {"get_household_basic_info"},
                {"get_household_monthly_summary"}}

O_Import == NoCallYet /\ ImportRecord(QualityRows, MaxFewRows)

O_Begin == BeginReport({"H1"}, {NoWindow}, OrderFaults, {OneFloatErr(0)})

O_Enrich == RunStep("_enrich_basic_info")

O_Profile == RunStep("generate_household_profile")

O_Detect == RunStep("detect_household_anomalies")

O_Evaluate == RunStep("evaluate_household_quality")

NextOrder ==
    O_Import \/ O_Begin \/ O_Enrich \/ O_Profile \/ O_Detect \/ O_Evaluate
    \/ FinishReport

SpecOrder == Init /\ [][NextOrder]_vars

\* the report that generate_household_analysis_report makes in the order of
\* its code, on the ledger as the call found it
ReportInCodeOrder ==
    generate_household_analysis_report(args.db, args.code, args.window,
                                       args.faults, args.fp).r

-----------------------------------------------------------------------------
(* A report is made in the order of its code while another connection      *)
(* imports records: each query of the report is a statement of its own,    *)
(* and an import may commit between two of them.                           *)

\* data_import on another connection: the row is in the table for every
\* query made after it
ConcurrentImport(rows, bound) ==
    /\ Len(ledger) < bound
    /\ \E r \in rows : ledger' = Append(ledger, r)
    /\ UNCHANGED <<op, args, ret, log>>

\* the step that generate_household_analysis_report makes next
InCodeOrder(step) == RunStep(step) /\ args.done = StepsBefore(step)

X_Import == ConcurrentImport(QualityRows, MaxScenarioRows)

X_Begin ==
    BeginReport({"H1", "H3"}, ReportWindows,
                {{}, {"get_household_income_expense_data"}},
                {OneFloatErr(0)})

X_Enrich == InCodeOrder("_enrich_basic_info")

X_Profile == InCodeOrder("generate_household_profile")

X_Detect == InCodeOrder("detect_household_anomalies")

X_Evaluate == InCodeOrder("evaluate_household_quality")

NextRace ==
    X_Import \/ X_Begin \/ X_Enrich \/ X_Profile \/ X_Detect \/ X_Evaluate
    \/ FinishReport

SpecRace == Init /\ [][NextRace]_vars

ReportReturned == op = "generate_household_analysis_report" /\ ret.success

\* 异常统计.总记录数 is present in the report
HasTotal ==
    /\ ret.anomaly_detection.stats # <<>>
    /\ "total" \in DOMAIN ret.anomaly_detection.stats

\* C23: in a report returned with success, 记录总数 of the basic information
\* equals 总记录数 of the anomaly statistics whenever the latter is present,
\* also when records were imported while the report was made.
C23_SameCount ==
    (ReportReturned /\ HasTotal) =>
        ret.household_basic_info.total_records
            = ret.anomaly_detection.stats.total

\* a report of H1 whose enrichment counted one record and whose anomaly
\* engine counted two: a record was imported between the two steps
C23_Witness ==
    /\ ReportReturned
    /\ args.code = "H1"
    /\ Len(args.db) = 1
    /\ Len(ledger) = 2
    /\ ret.household_basic_info.total_records = 1
    /\ ret.anomaly_detection.stats.total = 2

\* the two counts are equal in the reports during which nothing was
\* imported
SameCountWithoutImport ==
    (ReportReturned /\ HasTotal /\ ledger = args.db) =>
        ret.household_basic_info.total_records
            = ret.anomaly_detection.stats.total

\* a report during which nothing was imported, with both counts
QuietReport ==
    /\ ReportReturned
    /\ HasTotal
    /\ ledger = args.db
    /\ ret.anomaly_detection.stats.total = 2


-----------------------------------------------------------------------------
(* The anomaly statistics count the anomalies of the list.                 *)

\* the largest number of food records of the ledgers tried
MaxStatRecords == 10

\* H1 buys food for 10.00 on n days; one more purchase costs `odd`, `wage`
\* is the income of the month, and `again` purchases repeat the first one
StatLedger(n, odd, wage, again) ==
    [k \in 1..n |->
        Row("H1", 2024, <<0, 1>>, k, 2, "31", ToString(k), 1000, FALSE)]
    \o (IF odd > 0
        THEN <<Row("H1", 2024, <<0, 1>>, 20, 2, "31", "feast", odd, FALSE)>>
        ELSE <<>>)
    \o (IF wage > 0
        THEN <<Row("H1", 2024, <<0, 1>>, 21, 1, "21", "wage", wage, FALSE)>>
        ELSE <<>>)
    \o [k \in 1..again |->
        Row("H1", 2024, <<0, 1>>, 1, 2, "31", ToString(1), 1000, FALSE)]

StatInit ==
    /\ \E n \in MaxStatRecords - 2..MaxStatRecords, odd \in {0, 1050, 90000},
          wage \in {0, 5000, 9000, 100000}, again \in 0..1 :
          ledger = StatLedger(n, odd, wage, again)
    /\ op = "init"
    /\ args = <<>>
    /\ ret = <<>>
    /\ log = <<>>

D_Detect ==
    DetectAnomalies({"H1"}, {NoWindow}, {{}, {"get_statistical_benchmarks"}})

SpecStats == StatInit /\ [][D_Detect]_vars

\* a call of detect_household_anomalies has returned a non-empty 异常统计
StatisticsReturned ==
    /\ op = "detect_household_anomalies"
    /\ ret.stats # <<>>

\* C24: in a non-empty 异常统计, 异常记录数 is the length of 异常记录, the
\* sum of the three counts of 按严重程度统计, the sum of the counts of
\* 按类型统计 and the length of 异常详情, and in 异常详情 no entry of a lower
\* severity stands before one of a higher severity.
C24_Counts ==
    StatisticsReturned =>
        /\ ret.stats.anomalies = Len(ret.anomalies)
        /\ ret.stats.anomalies
             = SumSet(ret.stats.by_severity, {"high", "medium", "low"})
        /\ DOMAIN ret.stats.by_severity = {"high", "medium", "low"}
        /\ ret.stats.anomalies
             = SumSet(ret.stats.by_kind, DOMAIN ret.stats.by_kind)
        /\ ret.stats.anomalies = Len(ret.details)
        /\ \A i, j \in 1..Len(ret.details) :
              i < j => severity_order[ret.details[i].severity]
                         >= severity_order[ret.details[j].severity]

\* anomalies of the three severities were found, of more than three types,
\* and 异常详情 lists them in another order than 异常记录
C24_Witness ==
    /\ StatisticsReturned
    /\ \A s \in {"high", "medium", "low"} : ret.stats.by_severity[s] > 0
    /\ Cardinality(DOMAIN ret.stats.by_kind) > 3
    /\ ret.details # ret.anomalies


\* C25 (as stated): 异常比例 of a non-empty 异常统计 lies in [0, 1].
C25_RatioInUnit ==
    StatisticsReturned =>
        /\ RLe(RInt(0), ret.stats.ratio)
        /\ RLe(ret.stats.ratio, RInt(1))

\* thirteen records of H1 (ten purchases of 10.00, one of 900.00, a wage of
\* 50.00 and a repeated purchase) carry 27 anomalies: the ratio is 27/13
C25_Witness ==
    /\ StatisticsReturned
    /\ ret.stats.total = 13
    /\ ret.stats.anomalies = 27
    /\ ret.stats.ratio = Rat(27, 13)

\* 异常比例 is the number of anomalies by the number of records, and not
\* negative
RatioOfCounts ==
    StatisticsReturned =>
        /\ ret.stats.total > 0
        /\ ret.stats.ratio = Rat(ret.stats.anomalies, ret.stats.total)
        /\ RLe(RInt(0), ret.stats.ratio)


-----------------------------------------------------------------------------
(* The tag lists of a profile: a household with expenses in two months,    *)
(* one of them a record of amount 0, with or without a wage.               *)

TagRows ==
    {Row("H1", 2024, <<0, 1>>, 5, 2, "31", "rice", 5000, FALSE),
     Row("H1", 2024, <<0, 2>>, 5, 2, "31", "sample", 0, FALSE),
     Row("H1", 2024, <<0, 2>>, 6, 2, "31", "veg", 6000, FALSE),
     Row("H1", 2024, <<0, 1>>, 9, 1, "21", "wage", 300000, FALSE)}

K_Import == ImportRecord(TagRows, MaxProfileRows)

K_Profile ==
    GenerateProfile({"H1"}, {NoWindow, FromFebruary},
                    {{}, {"get_household_monthly_summary"}})

NextTags == K_Import \/ K_Profile

SpecTags == Init /\ [][NextTags]_vars

\* C26 (as stated): each of the six tag lists of a non-empty profile holds
\* at least one tag.
C26_TagLists ==
    ProfileGenerated => \A k \in TagKeys : Len(ret[k]) >= 1

\* H1 spent 50.00 in January and recorded an amount of 0 in February, with
\* no income: the profile has no 财务健康型 tag, and a tag in each other list
C26_Witness ==
    /\ ProfileGenerated
    /\ Len(ledger) = 2
    /\ TotalOfType(1) = 0
    /\ TotalOfType(2) = 5000
    /\ ret.financial_tags = <<>>
    /\ \A k \in TagKeys \ {"financial_tags"} : Len(ret[k]) >= 1

\* the five other lists hold a tag, and so does 财务健康型 for a household
\* with an income
OtherTagLists ==
    ProfileGenerated =>
        /\ \A k \in TagKeys \ {"financial_tags"} : Len(ret[k]) >= 1
        /\ TotalOfType(1) > 0 /\ args.window = NoWindow
             => Len(ret.financial_tags) >= 1

\* a household with a wage has a savings tag
WageEarnerTagged ==
    /\ ProfileGenerated
    /\ args.window = NoWindow
    /\ TotalOfType(1) > 0
    /\ Len(ret.financial_tags) = 2


-----------------------------------------------------------------------------
(* The suggestions of the comprehensive assessment.                        *)

\* the largest number of purchases of 100.00 in a month
MaxRoundAmounts == 6

\* H1 buys rice in `months` months: on each of the days 1 to 9 once, for
\* 100.00 on the first `round` days and for 12.50 on the others, with a note
\* on the first `notes` days, and twice the same on each of the days 25 (for
\* 7.50), 26 and 27 (for 8.00)
SuggestLedger(round, notes, months) ==
    [k \in 1..15 * months |->
        LET m == ((k - 1) \div 15) + 1
            j == ((k - 1) % 15) + 1
            day == IF j <= 9 THEN j ELSE 25 + ((j - 10) \div 2)
        IN  Row("H1", 2024, <<0, m>>, day, 2, "31", "rice",
                IF j <= 9 THEN (IF j <= round THEN 10000 ELSE 1250)
                ELSE IF day = 25 THEN 750 ELSE 800,
                j <= notes)]

SuggestInit ==
    /\ \E round \in MaxRoundAmounts - 3..MaxRoundAmounts, notes \in 3..5,
          months \in 1..2 :
          ledger = SuggestLedger(round, notes, months)
    /\ op = "init"
    /\ args = <<>>
    /\ ret = <<>>
    /\ log = <<>>

U_Report == GenerateReport({"H1"}, {NoWindow}, {{}})

SpecSuggest == SuggestInit /\ [][U_Report]_vars

\* C27 (as stated): 改进建议 of a comprehensive assessment never holds the
\* affirming message 记账质量良好，请继续保持.
C27_NoAffirmingMessage ==
    (op = "generate_household_analysis_report" /\ ret.success) =>
        "keep_up" \notin Range(ret.comprehensive_assessment.suggestions)


\* thirty records of H1 in two months: the quality total is below 80, no
\* suggestion rule has fired, and 改进建议 begins with the affirming message
C27_Witness ==
    /\ op = "generate_household_analysis_report"
    /\ ret.success
    /\ Len(ledger) = 30
    /\ ret.quality_assessment.total < 8000
    /\ ret.quality_assessment.suggestions = <<"keep_up">>
    /\ ret.comprehensive_assessment.suggestions[1] = "keep_up"

\* the affirming message is in 改进建议 exactly when the quality total is
\* below 80 and no suggestion rule has fired
AffirmingWhenNoRule ==
    (op = "generate_household_analysis_report" /\ ret.success) =>
        ("keep_up" \in Range(ret.comprehensive_assessment.suggestions)
            <=> /\ ret.quality_assessment.total < 8000
                /\ "suggestions" \in DOMAIN ret.quality_assessment
                /\ ret.quality_assessment.suggestions = <<"keep_up">>)

\* a report whose quality suggestions are corrective and are merged
CorrectiveMerged ==
    /\ op = "generate_household_analysis_report"
    /\ ret.success
    /\ ret.quality_assessment.total < 8000
    /\ "keep_up" \notin Range(ret.comprehensive_assessment.suggestions)
    /\ Len(ret.quality_assessment.suggestions) > 0


-----------------------------------------------------------------------------
(* The connection pool.  Threads call get_connection and                   *)
(* release_connection, directly or through get_cursor; a step of a thread  *)
(* is what it does between two points at which another thread may run.     *)
(* The pool object is kept in args (pool: the queue _pool, lock: the       *)
(* holder of _lock or 0, in_use: _connections_in_use, total:               *)
(* _total_connections, created: the connections made so far) and the       *)
(* threads in ret (pc: the position, conn: the connection at hand or 0,    *)
(* tmp: the value of _total_connections read by an update without lock).   *)

\* the threads of the model
MaxThreads == 3

PoolThreads == 1..MaxThreads

\* max_connections of the pool of the model
max_connections == 2

\* the connections that _create_connection can make in a run of the model
MaxCreated == 4

_pool == args.pool

_connections_in_use == args.in_use

_total_connections == args.total

IdleThread == [pc |-> "idle", conn |-> 0, tmp |-> 0]

\* __init__ and _initialize_pool: max_connections // 2 connections are
\* created, fewer when the database refuses some
PoolInit ==
    /\ \E n \in 0..(max_connections \div 2) :
          args = [pool |-> [k \in 1..n |-> k], lock |-> 0, in_use |-> 0,
                  total |-> n, created |-> n]
    /\ ret = [t \in PoolThreads |-> IdleThread]
    /\ op = "__init__"
    /\ ledger = <<>>
    /\ log = <<>>

\* a step `name` of thread t that leaves the pool as `pool` and the thread
\* as `thread`
PoolStep(name, t, pool, thread) ==
    /\ op' = name
    /\ args' = pool
    /\ ret' = [ret EXCEPT ![t] = thread]
    /\ UNCHANGED <<ledger, log>>

\* get_connection, `with self._lock`: TimeoutError when
\* _connections_in_use >= max_connections
CheckLimit(t) ==
    /\ ret[t].pc = "idle"
    /\ args.lock = 0
    /\ IF _connections_in_use >= max_connections
       THEN PoolStep("TimeoutError", t, args, IdleThread)
       ELSE PoolStep("get_connection", t, args,
                     [ret[t] EXCEPT !.pc = "queue_get"])

\* self._pool.get(timeout=...) returns a connection, and
\* _is_connection_valid tells whether it is kept; an invalid one is dropped
\* and `self._total_connections -= 1` begins by reading the counter
QueueGet(t) ==
    /\ ret[t].pc = "queue_get"
    /\ _pool # <<>>
    /\ \E valid \in BOOLEAN :
          PoolStep("_pool.get", t, [args EXCEPT !.pool = Tail(@)],
                   IF valid
                   THEN [ret[t] EXCEPT !.pc = "count", !.conn = Head(_pool)]
                   ELSE [ret[t] EXCEPT !.pc = "drop_write",
                                       !.tmp = _total_connections])

\* self._pool.get(timeout=...) raises Empty
QueueEmpty(t) ==
    /\ ret[t].pc = "queue_get"
    /\ _pool = <<>>
    /\ PoolStep("Empty", t, args, [ret[t] EXCEPT !.pc = "empty"])

\* `self._total_connections -= 1` ends by writing the counter
DropWrite(t) ==
    /\ ret[t].pc = "drop_write"
    /\ PoolStep("_total_connections -= 1", t,
                [args EXCEPT !.total = ret[t].tmp - 1],
                [ret[t] EXCEPT !.pc = "create"])

\* _create_connection in place of the invalid connection: it raises, or it
\* returns a connection and `self._total_connections += 1` reads the counter
Recreate(t) ==
    /\ ret[t].pc = "create"
    /\ \/ PoolStep("pyodbc.Error", t, args, IdleThread)
       \/ /\ args.created < MaxCreated
          /\ PoolStep("_create_connection", t,
                      [args EXCEPT !.created = @ + 1],
                      [ret[t] EXCEPT !.pc = "add_write",
                                     !.conn = args.created + 1,
                                     !.tmp = _total_connections])

\* `self._total_connections += 1` ends by writing the counter
AddWrite(t) ==
    /\ ret[t].pc = "add_write"
    /\ PoolStep("_total_connections += 1", t,
                [args EXCEPT !.total = ret[t].tmp + 1],
                [ret[t] EXCEPT !.pc = "count"])

\* except Empty, `with self._lock`: a connection is created when
\* _total_connections < max_connections (ConnectionError when that fails);
\* otherwise the thread waits for the queue with the lock in its hands
CreateOrWait(t) ==
    /\ ret[t].pc = "empty"
    /\ args.lock = 0
    /\ IF _total_connections < max_connections
       THEN \/ PoolStep("ConnectionError", t, args, IdleThread)
            \/ /\ args.created < MaxCreated
               /\ PoolStep("_create_connection", t,
                           [args EXCEPT !.created = @ + 1, !.total = @ + 1],
                           [ret[t] EXCEPT !.pc = "count",
                                          !.conn = args.created + 1])
       ELSE PoolStep("wait", t, [args EXCEPT !.lock = t],
                     [ret[t] EXCEPT !.pc = "waiting"])

\* the second self._pool.get(timeout=...) returns a connection
WaitGet(t) ==
    /\ ret[t].pc = "waiting"
    /\ _pool # <<>>
    /\ PoolStep("_pool.get", t, [args EXCEPT !.pool = Tail(@), !.lock = 0],
                [ret[t] EXCEPT !.pc = "count", !.conn = Head(_pool)])

\* the second self._pool.get(timeout=...) raises Empty: TimeoutError
WaitTimeout(t) ==
    /\ ret[t].pc = "waiting"
    /\ _pool = <<>>
    /\ PoolStep("TimeoutError", t, [args EXCEPT !.lock = 0], IdleThread)

\* `with self._lock: self._connections_in_use += 1`, and the connection is
\* returned
CountUse(t) ==
    /\ ret[t].pc = "count"
    /\ args.lock = 0
    /\ PoolStep("return conn", t, [args EXCEPT !.in_use = @ + 1],
                [ret[t] EXCEPT !.pc = "held"])

\* the caller uses the connection; the body of get_cursor commits, or it
\* raises and the transaction is rolled back
Body(t) ==
    /\ ret[t].pc = "held"
    /\ \E outcome \in {"commit", "rollback"} :
          PoolStep(outcome, t, args, [ret[t] EXCEPT !.pc = "release"])

\* release_connection up to `finally`: an invalid connection is dropped
\* (_total_connections -= 1 under the lock), a valid one is put back, or
\* closed when the queue is full (_total_connections -= 1 under the lock)
ReleasePut(t) ==
    /\ ret[t].pc = "release"
    /\ \E valid \in BOOLEAN :
          IF valid /\ Len(_pool) < max_connections
          THEN PoolStep("_pool.put", t,
                        [args EXCEPT !.pool = Append(@, ret[t].conn)],
                        [ret[t] EXCEPT !.pc = "uncount", !.conn = 0])
          ELSE /\ args.lock = 0
               /\ PoolStep(IF valid THEN "Full" ELSE "discard", t,
                           [args EXCEPT !.total = @ - 1],
                           [ret[t] EXCEPT !.pc = "uncount", !.conn = 0])

\* finally, `with self._lock: self._connections_in_use -= 1`
Uncount(t) ==
    /\ ret[t].pc = "uncount"
    /\ args.lock = 0
    /\ PoolStep("release_connection", t, [args EXCEPT !.in_use = @ - 1],
                IdleThread)

NextPool ==
    \E t \in PoolThreads :
        \/ CheckLimit(t) \/ QueueGet(t) \/ QueueEmpty(t) \/ DropWrite(t)
        \/ Recreate(t) \/ AddWrite(t) \/ CreateOrWait(t) \/ WaitGet(t)
        \/ WaitTimeout(t) \/ CountUse(t) \/ Body(t) \/ ReleasePut(t)
        \/ Uncount(t)

SpecPool == PoolInit /\ [][NextPool]_vars

\* the threads that have a connection at hand
Holders == {t \in PoolThreads : ret[t].conn # 0}

\* no connection is at hand of two threads, or at hand of a thread and in
\* the queue, or twice in the queue
NoSharedConnection ==
    /\ \A t, u \in Holders : t # u => ret[t].conn # ret[u].conn
    /\ \A t \in Holders, k \in 1..Len(_pool) : _pool[k] # ret[t].conn
    /\ \A j, k \in 1..Len(_pool) : j # k => _pool[j] # _pool[k]

\* C28 (as stated): in every reachable state of the pool
\* 0 <= _connections_in_use <= max_connections, and no connection is held
\* by two threads.
C28_PoolSafe ==
    /\ 0 <= _connections_in_use
    /\ _connections_in_use <= max_connections
    /\ NoSharedConnection

\* _connections_in_use is max_connections + 1: a thread has counted the
\* connection that another thread has put back and not yet uncounted
C28_Witness ==
    /\ _connections_in_use = max_connections + 1
    /\ \E t \in PoolThreads : ret[t].pc = "uncount"
    /\ Cardinality(Holders) <= max_connections

\* the counter is never negative and never above the number of threads, and
\* no connection is shared
PoolSafeButForLimit ==
    /\ 0 <= _connections_in_use
    /\ _connections_in_use <= MaxThreads
    /\ NoSharedConnection

\* two threads hold a connection each
TwoHolders ==
    /\ Cardinality({t \in PoolThreads : ret[t].pc = "held"}) = 2
    /\ _connections_in_use = 2


-----------------------------------------------------------------------------
(* Direct-match coding.  A type_name is a sequence of characters (numbers); *)
(* the mapping cache {type_name: code} is a function, empty as <<>>.  The   *)
(* processor is kept in args: mapping_cache, cache_loaded, and the          *)
(* arguments and totals of the call under way.                              *)

rice == <<1>>

rice_noodles == <<1, 2>>

salt == <<3>>

\* a in b, for strings
Contains(a, b) ==
    \E k \in 0..(Len(b) - Len(a)) : SubSeq(b, k + 1, k + Len(a)) = a

\* load_mapping_cache: for each type_name of a coded record the code of the
\* first row of GROUP BY type_name, code ORDER BY type_name, frequency DESC
\* (among codes of equal frequency the database decides; the ledgers of the
\* model give a type_name one code)
load_mapping_cache(db) ==
    LET coded == {k \in 1..Len(db) :
                    db[k].code # NoCode /\ db[k].type_name # <<>>}
        names == {db[k].type_name : k \in coded}
        frequency(n, c) ==
            Cardinality({k \in coded :
                           db[k].type_name = n /\ db[k].code = c})
        codes(n) == {db[k].code : k \in {j \in coded : db[j].type_name = n}}
    IN  [n \in names |->
            CHOOSE c \in codes(n) :
                \A d \in codes(n) : frequency(n, d) <= frequency(n, c)]

\* find_direct_match: the code of the type_name itself, or of the first
\* cached type_name (in the order of the query) that contains it or is
\* contained in it; None (NoCode) without one
find_direct_match(mapping_cache, type_name) ==
    LET near == {n \in DOMAIN mapping_cache :
                    Contains(type_name, n) \/ Contains(n, type_name)}
    IN  IF type_name \in DOMAIN mapping_cache THEN mapping_cache[type_name]
        ELSE IF near = {} THEN NoCode
        ELSE mapping_cache[CHOOSE n \in near :
                               \A o \in near \ {n} : StrLt(n, o)]

\* the ids of the records without code and with a type_name, ORDER BY id
Uncoded(db) ==
    {k \in 1..Len(db) : db[k].code = NoCode /\ db[k].type_name # <<>>}

\* OFFSET 0 ROWS FETCH NEXT limit ROWS ONLY
FirstUncoded(db, limit) ==
    {k \in Uncoded(db) : Cardinality({j \in Uncoded(db) : j < k}) < limit}

\* process_uncoded_records(limit) on database db by a processor with the
\* cache `cache` (loaded or not): the result r, the database and the cache
\* after the call.  The result of a call that finds no record has no
\* match_rate.
process_uncoded_records(db, cache, loaded, limit) ==
    LET records == FirstUncoded(db, limit)
        mapping == IF loaded THEN cache ELSE load_mapping_cache(db)
        matched == {k \in records :
                      find_direct_match(mapping, db[k].type_name) # NoCode}
    IN  IF records = {}
        THEN [r |-> [success |-> TRUE, total_records |-> 0,
                     matched_records |-> 0, unmatched_records |-> 0],
              db |-> db, cache |-> cache, loaded |-> loaded]
        ELSE [r |-> [success |-> TRUE,
                     total_records |-> Cardinality(records),
                     matched_records |-> Cardinality(matched),
                     unmatched_records |-> Cardinality(records \ matched),
                     match_rate |-> Rat(100 * Cardinality(matched),
                                        Cardinality(records))],
              db |-> [k \in 1..Len(db) |->
                        IF k \in matched
                        THEN [db[k] EXCEPT !.code =
                                find_direct_match(mapping, db[k].type_name)]
                        ELSE db[k]],
              cache |-> mapping, loaded |-> TRUE]

\* the result of process_uncoded_records when its query fails
ProcessFailed == [success |-> FALSE, error |-> "db_error"]

\* the largest ledger of the coding models
MaxCodingRows == 4

CodingRows ==
    {Row("H1", 2024, <<0, 1>>, 5, 2, code, name, 1000, FALSE) :
        code \in {NoCode}, name \in {rice, rice_noodles, salt}}
    \cup {Row("H1", 2024, <<0, 1>>, 5, 2, "31", rice, 1000, FALSE)}

CodingLedgers == UNION {[1..n -> CodingRows] : n \in 1..MaxCodingRows}

\* the processor of the module, before its first call
NewProcessor == [mapping_cache |-> <<>>, cache_loaded |-> FALSE]

-----------------------------------------------------------------------------
(* process_uncoded_records(limit) is called again and again.               *)

\* the largest limit of the calls
MaxLimit == 2

RecodingInit ==
    /\ ledger \in CodingLedgers
    /\ \E limit \in 1..MaxLimit :
          args = [mapping_cache |-> <<>>, cache_loaded |-> FALSE,
                  limit |-> limit, calls |-> 0]
    /\ op = "init"
    /\ ret = <<>>
    /\ log = <<>>

\* one call; `calls` is the number of calls made, modulo 2
ProcessUncoded ==
    \E out \in {process_uncoded_records(ledger, args.mapping_cache,
                                        args.cache_loaded, args.limit)} :
        /\ ledger' = out.db
        /\ args' = [args EXCEPT !.mapping_cache = out.cache,
                                !.cache_loaded = out.loaded,
                                !.calls = (@ + 1) % 2]
        /\ ret' = out.r
        /\ op' = "process_uncoded_records"
        /\ UNCHANGED log

\* the calls never end
SpecRecoding ==
    RecodingInit /\ [][ProcessUncoded]_vars /\ WF_vars(ProcessUncoded)

\* the cache of the processor, as it is or as its first call will load it
MappingCache ==
    IF args.cache_loaded THEN args.mapping_cache
    ELSE load_mapping_cache(ledger)

\* record k has no code and its type_name is a key of the mapping cache
DirectlyMatched(k) ==
    /\ k <= Len(ledger)
    /\ ledger[k].code = NoCode
    /\ ledger[k].type_name \in DOMAIN MappingCache

\* record k has a code
Coded(k) == k <= Len(ledger) /\ ledger[k].code # NoCode

\* C29 (as stated): under repeated calls of process_uncoded_records(limit)
\* every record without code whose type_name has a direct match in the
\* mapping cache eventually has a code.
C29_EventuallyCoded ==
    \A k \in 1..MaxCodingRows :
        DirectlyMatched(k) ~> Coded(k)

\* a call with limit 1 has returned: it took the record of salt, which has
\* no match, and the record of rice behind it is still without code
C29_Witness ==
    /\ op = "process_uncoded_records"
    /\ args.limit = 1
    /\ ret.total_records = 1
    /\ ret.unmatched_records = 1
    /\ ledger[1].type_name = salt
    /\ DirectlyMatched(2)

\* with fewer unmatched records than the limit, every matched record is
\* coded in the end
CodedWhenLimitAllows ==
    \A k \in 1..MaxCodingRows :
        (/\ DirectlyMatched(k)
         /\ Cardinality({j \in Uncoded(ledger) :
               find_direct_match(MappingCache, ledger[j].type_name) = NoCode})
              < args.limit)
        ~> Coded(k)

\* a record of rice behind a record of salt has got its code with limit 2
CodedBehindUnmatched ==
    /\ op = "process_uncoded_records"
    /\ args.limit = 2
    /\ Len(ledger) >= 3
    /\ ledger[1].type_name = salt /\ ledger[1].code = NoCode
    /\ ledger[2].type_name = rice /\ ledger[2].code = "31"
    /\ ret.matched_records = 1

-----------------------------------------------------------------------------
(* The endpoint batch_process_records calls process_uncoded_records up to  *)
(* max_batches times.                                                      *)

\* batch_size and max_batches when the request gives no positive integer
DefaultBatchSize == 500

DefaultMaxBatches == 10

CodingInit ==
    /\ ledger \in CodingLedgers
    /\ args = NewProcessor
    /\ op = "init"
    /\ ret = <<>>
    /\ log = <<>>

\* the request is read and the totals are set to 0
BatchBegin ==
    /\ op = "init"
    /\ \E batch_size \in 0..2, max_batches \in 0..3 :
          args' = [mapping_cache |-> args.mapping_cache,
                   cache_loaded |-> args.cache_loaded,
                   batch_size |-> IF batch_size <= 0 THEN DefaultBatchSize
                                  ELSE batch_size,
                   max_batches |-> IF max_batches <= 0 THEN DefaultMaxBatches
                                   ELSE max_batches,
                   batch_num |-> 0, total_processed |-> 0,
                   total_matched |-> 0, total_unmatched |-> 0,
                   found_none |-> FALSE]
    /\ op' = "batch_running"
    /\ UNCHANGED <<ledger, ret, log>>

\* the response of the endpoint after the loop
BatchResponse ==
    [success |-> TRUE, status |-> 200,
     total_processed |-> args.total_processed,
     total_matched |-> args.total_matched,
     total_unmatched |-> args.total_unmatched,
     batches_processed |-> args.batch_num]

\* one turn of the loop: a failed call breaks the loop and the response is
\* made; a result without match_rate raises KeyError at the append to
\* batch_results, and the except branch answers 500
ProcessBatch ==
    /\ op = "batch_running"
    /\ args.batch_num < args.max_batches
    /\ \E failed \in BOOLEAN :
        \E out \in {process_uncoded_records(ledger, args.mapping_cache,
                                            args.cache_loaded,
                                            args.batch_size)} :
          IF failed
          THEN /\ op' = "batch_process_records"
               /\ ret' = BatchResponse
               /\ log' = Append(log, ProcessFailed)
               /\ UNCHANGED <<ledger, args>>
          ELSE /\ ledger' = out.db
               /\ log' = Append(log, out.r)
               /\ IF "match_rate" \notin DOMAIN out.r
                  THEN /\ op' = "batch_process_records"
                       /\ ret' = [success |-> FALSE, status |-> 500,
                                  error |-> "match_rate"]
                       /\ args' = [args EXCEPT
                                     !.mapping_cache = out.cache,
                                     !.cache_loaded = out.loaded,
                                     !.found_none = TRUE]
                  ELSE /\ op' = "batch_running"
                       /\ ret' = ret
                       /\ args' = [args EXCEPT
                                     !.mapping_cache = out.cache,
                                     !.cache_loaded = out.loaded,
                                     !.batch_num = @ + 1,
                                     !.total_processed =
                                         @ + out.r.total_records,
                                     !.total_matched =
                                         @ + out.r.matched_records,
                                     !.total_unmatched =
                                         @ + out.r.unmatched_records]

\* max_batches calls were made: the response is returned
BatchReturn ==
    /\ op = "batch_running"
    /\ args.batch_num = args.max_batches
    /\ op' = "batch_process_records"
    /\ ret' = BatchResponse
    /\ UNCHANGED <<ledger, args, log>>

NextCoding == BatchBegin \/ ProcessBatch \/ BatchReturn

SpecCoding == CodingInit /\ [][NextCoding]_vars

\* the endpoint has returned after a batch that found no record without
\* code
ReturnedAfterEmptyBatch ==
    /\ op = "batch_process_records"
    /\ args.found_none

\* C30 (as stated): when a batch finds no records without code, the
\* endpoint returns a success response with the totals of the batches
\* already run.
C30_SuccessAfterEmptyBatch ==
    ReturnedAfterEmptyBatch =>
        /\ ret.success
        /\ ret.total_processed = args.total_processed
        /\ ret.total_matched = args.total_matched
        /\ ret.total_unmatched = args.total_unmatched

\* a first batch coded two records and left one, the second batch took the
\* one left, the third found none: the endpoint answers 500 without totals
C30_Witness ==
    /\ ReturnedAfterEmptyBatch
    /\ args.batch_num = 2
    /\ args.total_matched = 3
    /\ Uncoded(ledger) = {}
    /\ ~ret.success
    /\ ret.status = 500

\* the endpoint answers with success exactly when no batch found the
\* ledger without uncoded records, and then with the totals of its batches
SuccessWithoutEmptyBatch ==
    op = "batch_process_records" =>
        /\ ret.success <=> ~args.found_none
        /\ ret.success =>
              /\ ret.total_processed = args.total_processed
              /\ ret.total_matched = args.total_matched
              /\ ret.total_unmatched = args.total_unmatched
              /\ ret.batches_processed = args.batch_num

\* max_batches batches were run and none was empty: success with totals
ReturnedAtMaxBatches ==
    /\ op = "batch_process_records"
    /\ ret.success
    /\ args.batch_num = args.max_batches
    /\ ret.total_matched = 2

=============================================================================
